---------------------------- MODULE Spec2Model ----------------------------
(***************************************************************************)
(* Model of the libp2p Noise layer of src/network2/libp2p/connection/      *)
(* noise.rs: the XX handshake state machine (HandshakeInProgress) and the  *)
(* transport cipher framing (Noise).                                       *)
(*                                                                         *)
(* Byte strings are sequences of runs.  A run [src, off, n] stands for the *)
(* n bytes off .. off+n-1 of the byte array named src, so that buffers of  *)
(* tens of thousands of bytes keep their true lengths.  A literal byte     *)
(* (a length prefix byte) is a run of length one whose source carries its  *)
(* value.  Runs are kept merged, so equal byte strings are equal values.   *)
(***************************************************************************)
EXTENDS Integers, Sequences, FiniteSets, TLC

VARIABLES
    hs,        \* hs[r]: the NoiseHandshake value held by the driver of role r
    wire,      \* wire[r]: bytes in flight towards r, in order
    keys,      \* keys[r]: the NoiseKey given to HandshakeInProgress::new
    last,      \* what the last call returned to its caller
    debug_assertions,  \* whether the build checks debug_assert!
    app,       \* app[r]: the data of r's caller, what of it is yet to send, what it got
    hist       \* history of the run, read by the properties only

vars == <<hs, wire, keys, last, debug_assertions, app, hist>>

Roles == {"I", "R"}

Peer(r) == IF r = "I" THEN "R" ELSE "I"

Min(a, b) == IF a <= b THEN a ELSE b

-----------------------------------------------------------------------------
(* Byte strings *)

Lit(v) == <<[src |-> [k |-> "lit", v |-> v], off |-> 0, n |-> 1]>>

Run(src, n) == IF n = 0 THEN <<>> ELSE <<[src |-> src, off |-> 0, n |-> n]>>

RECURSIVE BLen(_)
BLen(bs) == IF bs = <<>> THEN 0 ELSE Head(bs).n + BLen(Tail(bs))

RECURSIVE BTake(_, _)
BTake(bs, c) ==
    IF c = 0 \/ bs = <<>> THEN <<>>
    ELSE IF Head(bs).n <= c
         THEN <<Head(bs)>> \o BTake(Tail(bs), c - Head(bs).n)
         ELSE <<[Head(bs) EXCEPT !.n = c]>>

RECURSIVE BDrop(_, _)
BDrop(bs, c) ==
    IF c = 0 \/ bs = <<>> THEN bs
    ELSE IF Head(bs).n <= c
         THEN BDrop(Tail(bs), c - Head(bs).n)
         ELSE <<[Head(bs) EXCEPT !.off = @ + c, !.n = @ - c]>> \o Tail(bs)

\* Concatenation; two runs that continue each other are merged.
BCat(a, b) ==
    IF a = <<>> THEN b
    ELSE IF b = <<>> THEN a
    ELSE LET x == a[Len(a)]
             y == b[1]
         IN  IF x.src = y.src /\ x.off + x.n = y.off
             THEN SubSeq(a, 1, Len(a) - 1)
                    \o <<[x EXCEPT !.n = x.n + y.n]>> \o Tail(b)
             ELSE a \o b

IsLit(c) == c.src.k = "lit"

\* Value of the byte at index i (from 0) when it is a literal byte.
ByteAt(bs, i) == BTake(BDrop(bs, i), 1)[1]

\* u16::to_be_bytes
U16BE(v) == Lit(v \div 256) \o Lit(v % 256)

-----------------------------------------------------------------------------
(* Key material: NoiseKey, UnsignedNoiseKey *)

\* Length of a Curve25519 public key (Noise_XX_25519_ChaChaPoly_SHA256).
DHLEN == 32

\* Length of the authentication data of one encrypted block.
TAGLEN == 16

\* Length of the protobuf encoding of NoiseHandshakePayload for an ed25519
\* identity key (2 + 36 bytes) and a 64 byte signature (2 + 64 bytes).
PayloadLen == 104

\* Identity (libp2p) key and static (noise) key of each role; "idX" is a
\* third identity key and "sX" a third static key.
IdentityOf(r) == IF r = "I" THEN "idA" ELSE "idB"

StaticOf(r) == IF r = "I" THEN "sA" ELSE "sB"

\* What UnsignedNoiseKey::payload_to_sign covers: the domain string followed
\* by a static public key.
payload_to_sign(static) == [domain |-> "noise-libp2p-static-key:", key |-> static]

\* UnsignedNoiseKey::sign: the payload holds the given identity key and the
\* given signature, whoever made it.  A signature is named by the key that
\* made it and the message it covers.
sign(static, identity_key, signer, signed) ==
    [key |-> static,
     handshake_message |->
        Run([k |-> "payload", identity_key |-> identity_key,
             identity_sig |-> [signer |-> signer, msg |-> signed]], PayloadLen)]

\* NoiseKey::new: sign the own static key with the own identity key.
NoiseKey_new(r) ==
    sign(StaticOf(r), IdentityOf(r), IdentityOf(r), payload_to_sign(StaticOf(r)))

\* Keys made through UnsignedNoiseKey::sign with a signature that does not
\* belong: made with another identity key, or over another static key.
ForgedKeys(r) ==
    { sign(StaticOf(r), IdentityOf(r), "idX", payload_to_sign(StaticOf(r))),
      sign(StaticOf(r), IdentityOf(r), IdentityOf(r), payload_to_sign("sX")),
      sign(StaticOf(r), IdentityOf(Peer(r)), IdentityOf(r), payload_to_sign(StaticOf(r))) }

\* verify that does not look at the message signed (mutant).
verify_signer_only(identity_key, msg, sig) == sig.signer = identity_key

\* PublicKey::verify
verify(identity_key, msg, sig) == sig.signer = identity_key /\ sig.msg = msg

\* NoiseHandshakePayload::decode: the encoding of a payload decodes to its
\* two fields, the empty string decodes to the default payload (both fields
\* empty), anything else is malformed.
decode(bs) ==
    IF bs = <<>> THEN [ok |-> TRUE, identity_key |-> "", identity_sig |-> [signer |-> "", msg |-> payload_to_sign("")]]
    ELSE IF Len(bs) = 1 /\ bs[1].src.k = "payload" /\ bs[1].off = 0 /\ bs[1].n = PayloadLen
         THEN [ok |-> TRUE, identity_key |-> bs[1].src.identity_key,
               identity_sig |-> bs[1].src.identity_sig]
         ELSE [ok |-> FALSE]

\* PublicKey::from_protobuf_encoding: an empty key does not decode.
from_protobuf_encoding(identity_key) == identity_key # ""

-----------------------------------------------------------------------------
(* The handshake engine (snow::HandshakeState) for the XX pattern *)

\* Number of messages of the XX pattern.
NumMessages == 3

HandshakeState(initiator, s) ==
    [initiator |-> initiator, pos |-> 0, h |-> <<>>, rs |-> "none", s |-> s]

\* An engine that lets either side write any message (mutant).
is_my_turn_always(e) == e.pos < NumMessages

\* The initiator writes messages 1 and 3, the responder message 2.
is_my_turn(e) == e.pos < NumMessages /\ ((e.pos % 2 = 0) <=> e.initiator)

is_handshake_finished(e) == e.pos = NumMessages

\* Length of the handshake message written at position pos with a payload
\* of p bytes: e; e, ee, s, es; s, se.
MessageLen(pos, p) ==
    CASE pos = 0 -> DHLEN + p
      [] pos = 1 -> DHLEN + (DHLEN + TAGLEN) + (p + TAGLEN)
      [] OTHER   -> (DHLEN + TAGLEN) + (p + TAGLEN)

\* HandshakeState::write_message into a buffer of cap bytes.  Message 1 is
\* the ephemeral key followed by the payload in clear; messages 2 and 3 are
\* bound to every earlier message (h), the static key and the payload.
write_message(e, payload, cap) ==
    IF ~is_my_turn(e) \/ MessageLen(e.pos, BLen(payload)) > cap
    THEN [ok |-> FALSE]
    ELSE LET msg == IF e.pos = 0
                    THEN BCat(Run([k |-> "e", from |-> e.s], DHLEN), payload)
                    ELSE Run([k |-> "hs", i |-> e.pos, h |-> e.h, p |-> payload, s |-> e.s],
                             MessageLen(e.pos, BLen(payload)))
         IN  [ok |-> TRUE, msg |-> msg,
              e |-> [e EXCEPT !.pos = @ + 1, !.h = Append(@, msg)]]

\* HandshakeState::read_message.  Message 1 is accepted whatever its bytes
\* are, as long as it holds a key; messages 2 and 3 authenticate only when
\* they are the bytes the peer's engine wrote over the same earlier messages.
read_message(e, msg) ==
    IF is_my_turn(e) \/ is_handshake_finished(e) THEN [ok |-> FALSE]
    ELSE IF e.pos = 0
    THEN IF BLen(msg) < DHLEN THEN [ok |-> FALSE]
         ELSE [ok |-> TRUE, payload |-> BDrop(msg, DHLEN),
               e |-> [e EXCEPT !.pos = @ + 1, !.h = Append(@, msg)]]
    ELSE IF /\ Len(msg) = 1
            /\ msg[1].src.k = "hs"
            /\ msg[1].src.i = e.pos
            /\ msg[1].src.h = e.h
            /\ msg[1].off = 0
            /\ msg[1].n = MessageLen(e.pos, BLen(msg[1].src.p))
         THEN [ok |-> TRUE, payload |-> msg[1].src.p,
               e |-> [e EXCEPT !.pos = @ + 1, !.h = Append(@, msg), !.rs = msg[1].src.s]]
         ELSE [ok |-> FALSE]

\* HandshakeState::into_transport_mode: the two directions of the transport
\* cipher, keyed by the whole exchange, each with its own nonce.
into_transport_mode(e) ==
    [key |-> e.h, initiator |-> e.initiator, tx_n |-> 0, rx_n |-> 0]

-----------------------------------------------------------------------------
(* HandshakeInProgress *)

\* Size given to tx_buffer_encrypted before the engine writes into it.
TxBufferSize == 512

NoPayload == [some |-> FALSE]

\* A value whose computation panicked.
Panicked(why) == [st |-> "Panic", why |-> why]

InProgress(s) == [st |-> "InProgress", s |-> s]

\* An empty Noise value over a transport cipher.
Noise(inner, rx_buffer_encrypted) ==
    [inner |-> inner, rx_buffer_encrypted |-> rx_buffer_encrypted,
     rx_buffer_decrypted |-> <<>>]

\* HandshakeInProgress::update_message_write.  dbg: debug_assert! is checked.
update_message_write(s, dbg) ==
    IF ~is_my_turn(s.inner) THEN InProgress(s)
    ELSE IF dbg /\ s.tx_buffer_encrypted # <<>> THEN Panicked("tx_buffer_not_empty")
    ELSE LET sends   == s.tx_payload.some /\ s.tx_payload.n = 0
             payload == IF sends THEN s.tx_payload.payload ELSE <<>>
             tx_payload == IF ~s.tx_payload.some THEN NoPayload
                           ELSE IF s.tx_payload.n # 0
                                THEN [s.tx_payload EXCEPT !.n = @ - 1]
                                ELSE NoPayload
             w == write_message(s.inner, payload, TxBufferSize)
         IN  IF ~w.ok THEN Panicked("write_message")
             ELSE IF ~(BLen(w.msg) < TxBufferSize) THEN Panicked("message_fills_buffer")
             ELSE InProgress([s EXCEPT
                    !.inner = w.e,
                    !.tx_payload = tx_payload,
                    !.tx_buffer_encrypted = BCat(U16BE(BLen(w.msg)), w.msg)])

\* new with the payload expected on the wrong inbound message (mutant).
HandshakeInProgress_new_rx_late(key, is_initiator, dbg) ==
    update_message_write(
        [inner |-> HandshakeState(is_initiator, key.key),
         tx_payload |-> [some |-> TRUE, n |-> IF is_initiator THEN 1 ELSE 0,
                         payload |-> key.handshake_message],
         rx_payload |-> [received |-> FALSE, n |-> IF is_initiator THEN 1 ELSE 0],
         rx_messages_remain |-> IF is_initiator THEN 1 ELSE 2,
         rx_buffer_encrypted |-> <<>>,
         tx_buffer_encrypted |-> <<>>], dbg)

\* HandshakeInProgress::new with the positions of the local payload of the
\* two roles exchanged (mutant).
HandshakeInProgress_new_tx_swapped(key, is_initiator, dbg) ==
    update_message_write(
        [inner |-> HandshakeState(is_initiator, key.key),
         tx_payload |-> [some |-> TRUE, n |-> IF is_initiator THEN 0 ELSE 1,
                         payload |-> key.handshake_message],
         rx_payload |-> [received |-> FALSE, n |-> IF is_initiator THEN 0 ELSE 1],
         rx_messages_remain |-> IF is_initiator THEN 1 ELSE 2,
         rx_buffer_encrypted |-> <<>>,
         tx_buffer_encrypted |-> <<>>], dbg)

\* new of a responder with bytes in tx_buffer_encrypted (mutant).
HandshakeInProgress_new_queued(key, is_initiator, dbg) ==
    update_message_write(
        [inner |-> HandshakeState(is_initiator, key.key),
         tx_payload |-> [some |-> TRUE, n |-> IF is_initiator THEN 1 ELSE 0,
                         payload |-> key.handshake_message],
         rx_payload |-> [received |-> FALSE, n |-> IF is_initiator THEN 0 ELSE 1],
         rx_messages_remain |-> IF is_initiator THEN 1 ELSE 2,
         rx_buffer_encrypted |-> <<>>,
         tx_buffer_encrypted |-> IF is_initiator THEN <<>> ELSE U16BE(300)], dbg)

\* HandshakeInProgress::new
HandshakeInProgress_new(key, is_initiator, dbg) ==
    update_message_write(
        [inner |-> HandshakeState(is_initiator, key.key),
         tx_payload |-> [some |-> TRUE, n |-> IF is_initiator THEN 1 ELSE 0,
                         payload |-> key.handshake_message],
         rx_payload |-> [received |-> FALSE, n |-> IF is_initiator THEN 0 ELSE 1],
         rx_messages_remain |-> IF is_initiator THEN 1 ELSE 2,
         rx_buffer_encrypted |-> <<>>,
         tx_buffer_encrypted |-> <<>>], dbg)

\* try_finish without its first check (mutant).
try_finish_unsent(s, dbg) ==
    IF ~is_handshake_finished(s.inner) THEN InProgress(s)
    ELSE IF ~s.rx_payload.received THEN Panicked("unreachable")
    ELSE [st |-> "Success",
          cipher |-> Noise(into_transport_mode(s.inner), s.rx_buffer_encrypted),
          remote_peer_id |-> s.rx_payload.peer_id]

\* HandshakeInProgress::try_finish
try_finish(s, dbg) ==
    IF s.tx_buffer_encrypted # <<>> THEN InProgress(s)
    ELSE IF ~is_handshake_finished(s.inner) THEN InProgress(s)
    ELSE IF ~s.rx_payload.received THEN Panicked("unreachable")
    ELSE IF dbg /\ s.rx_buffer_encrypted # <<>> THEN Panicked("rx_buffer_not_empty")
    ELSE [st |-> "Success",
          cipher |-> Noise(into_transport_mode(s.inner), s.rx_buffer_encrypted),
          remote_peer_id |-> s.rx_payload.peer_id]

\* The errors of HandshakeError.
HandshakeError ==
    {"Cipher", "PayloadDecode", "InvalidKey", "UnexpectedPayload",
     "SignatureVerificationFailed"}

\* An error returned along with a PeerId (mutant).
Err_with_peer_id(e) == [st |-> "Error", err |-> e, remote_peer_id |-> "idX"]

\* What inject_data returns on failure: the error, and no session.
Err(e) == [st |-> "Error", err |-> e]

\* First part of inject_data, moving bytes only to an empty buffer (mutant).
PrefixTaken_to_empty(buf, payload) == IF buf = <<>> THEN Min(2, BLen(payload)) ELSE 0

\* First part of inject_data: bytes moved one by one into rx_buffer_encrypted
\* until it holds the two bytes of length.
PrefixTaken(buf, payload) == Min(IF BLen(buf) < 2 THEN 2 - BLen(buf) ELSE 0, BLen(payload))

\* u16::from_be_bytes of the first two bytes of a buffer.
ExpectedLen(buf) == ByteAt(buf, 0).src.v * 256 + ByteAt(buf, 1).src.v

\* Second part of inject_data copying all the rest of the payload (mutant).
to_copy_all(buf, rest, expected_len) == BLen(rest)

\* Second part of inject_data: the number of bytes of the rest of the payload
\* copied to rx_buffer_encrypted, which holds buf.
to_copy(buf, rest, expected_len) == Min(expected_len + 2 - BLen(buf), BLen(rest))

\* The decoding of the payload with no second attempt (mutant).
decode_standard_only(decoded_payload) == decode(decoded_payload)

\* The decoding of the payload received in inject_data: the standard form
\* first; when that fails and there are two bytes or more, the payload
\* without its first two bytes.
decode_with_fallback(decoded_payload) ==
    LET d1 == decode(decoded_payload)
    IN  IF d1.ok \/ BLen(decoded_payload) < 2 THEN d1
        ELSE decode(BDrop(decoded_payload, 2))

\* Last part of inject_data, once a whole handshake message is in
\* rx_buffer_encrypted: decode it, check the payload, write the next message
\* if it is this side's turn.  The session it yields goes to try_finish.
inject_message(s, dbg) ==
    LET r == read_message(s.inner, BDrop(s.rx_buffer_encrypted, 2))
    IN  IF ~r.ok THEN Err("Cipher")
        ELSE
        LET decoded_payload  == r.payload
            payload_expected == ~s.rx_payload.received /\ s.rx_payload.n = 0
            rx_payload1 == IF ~s.rx_payload.received /\ s.rx_payload.n # 0
                           THEN [s.rx_payload EXCEPT !.n = @ - 1]
                           ELSE s.rx_payload
            s1 == [s EXCEPT !.inner = r.e,
                            !.rx_buffer_encrypted = <<>>,
                            !.rx_messages_remain = @ - 1,
                            !.rx_payload = rx_payload1]
            d2 == decode_with_fallback(decoded_payload)
        IN  IF payload_expected
            THEN IF ~d2.ok THEN Err("PayloadDecode")
                 ELSE IF ~from_protobuf_encoding(d2.identity_key) THEN Err("InvalidKey")
                 ELSE IF r.e.rs = "none" THEN Panicked("get_remote_static")
                 ELSE IF ~verify(d2.identity_key, payload_to_sign(r.e.rs), d2.identity_sig)
                      THEN Err("SignatureVerificationFailed")
                 ELSE update_message_write(
                         [s1 EXCEPT !.rx_payload =
                             [received |-> TRUE, peer_id |-> d2.identity_key]], dbg)
            ELSE IF decoded_payload # <<>> THEN Err("UnexpectedPayload")
                 ELSE update_message_write(s1, dbg)

\* The first check of inject_data, left out (mutant).
NoMoreMessages_never(s) == FALSE

\* The first check of inject_data: incoming data is no longer part of the
\* handshake.
NoMoreMessages(s) == s.rx_messages_remain = 0

\* HandshakeInProgress::inject_data up to its last line: the session (or
\* the error, or the panic) it has reached, the number of bytes of payload
\* processed, and whether it goes on to try_finish (fin) or has returned.
inject_data_state(s, payload, dbg) ==
    IF NoMoreMessages(s) THEN [v |-> InProgress(s), n |-> 0, fin |-> FALSE]
    ELSE
    LET n1   == PrefixTaken(s.rx_buffer_encrypted, payload)
        buf1 == BCat(s.rx_buffer_encrypted, BTake(payload, n1))
        rest == BDrop(payload, n1)
    IN  IF BLen(buf1) < 2
        THEN [v |-> InProgress([s EXCEPT !.rx_buffer_encrypted = buf1]), n |-> n1,
              fin |-> FALSE]
        ELSE
        LET expected_len == ExpectedLen(buf1)
            copied  == to_copy(buf1, rest, expected_len)
            buf2    == BCat(buf1, BTake(rest, copied))
            s2      == [s EXCEPT !.rx_buffer_encrypted = buf2]
        IN  IF dbg /\ ~(BLen(buf1) < 2 + expected_len)
            THEN [v |-> Panicked("frame_buffer_full"), n |-> n1, fin |-> FALSE]
            ELSE IF BLen(buf2) < expected_len + 2
            THEN [v |-> InProgress(s2), n |-> n1 + copied, fin |-> FALSE]
            ELSE [v |-> inject_message(s2, dbg), n |-> n1 + copied, fin |-> TRUE]

\* HandshakeInProgress::inject_data: the value returned (or the panic) and
\* the number of bytes of payload processed.
inject_data(s, payload, dbg) ==
    LET i == inject_data_state(s, payload, dbg)
    IN  [v |-> IF i.fin /\ i.v.st = "InProgress" THEN try_finish(i.v.s, dbg) ELSE i.v,
         n |-> i.n]

\* write_out that writes the whole queue whatever the destination (mutant).
write_out_whole_queue(s, dest, dbg) ==
    LET n == BLen(s.tx_buffer_encrypted)
    IN  [v |-> try_finish([s EXCEPT !.tx_buffer_encrypted = BDrop(@, n)], dbg),
         out |-> BTake(s.tx_buffer_encrypted, n),
         n |-> n]

\* HandshakeInProgress::write_out into a destination of dest bytes: the
\* value returned, the bytes written and their number.
write_out(s, dest, dbg) ==
    LET n == Min(BLen(s.tx_buffer_encrypted), dest)
    IN  [v |-> try_finish([s EXCEPT !.tx_buffer_encrypted = BDrop(@, n)], dbg),
         out |-> BTake(s.tx_buffer_encrypted, n),
         n |-> n]

-----------------------------------------------------------------------------
(* Noise: the transport cipher and its framing *)

\* Largest message the transport cipher writes or reads (a u16 length).
MAXMSGLEN == 65535

\* Largest plaintext encrypt_inner puts in one frame.
MaxInLen == 65536

\* Smallest destination encrypt_inner writes a frame to.
MinDestLen == 19

\* The length of a frame beyond its plaintext, one byte short (mutant).
FrameOverhead_short == 18 - 1

\* Length of a frame beyond its plaintext: two bytes of length and the
\* authentication data.
FrameOverhead == 18

\* The threshold of inject_inbound_data, a quarter of it (mutant).
HighWaterMark_quarter == 65536 * 1

\* The threshold of inject_inbound_data, doubled (mutant).
HighWaterMark_twice == 65536 * 8

\* Size of rx_buffer_decrypted from which inject_inbound_data reads no more.
HighWaterMark == 65536 * 4

\* snow::TransportState::write_message of the side with cipher state c into
\* a buffer of cap bytes: the ciphertext is bound to the keys, the direction,
\* the nonce and the plaintext.
transport_write_message(c, payload, cap) ==
    IF BLen(payload) + TAGLEN > MAXMSGLEN \/ BLen(payload) + TAGLEN > cap
    THEN [ok |-> FALSE]
    ELSE [ok |-> TRUE,
          msg |-> Run([k |-> "ct", key |-> c.key, from_initiator |-> c.initiator,
                       nonce |-> c.tx_n, p |-> payload], BLen(payload) + TAGLEN),
          c |-> [c EXCEPT !.tx_n = @ + 1]]

\* snow::TransportState::read_message: a message authenticates only when it
\* is the whole ciphertext the peer wrote with the nonce expected next.
transport_read_message(c, msg, cap) ==
    IF /\ Len(msg) = 1
       /\ msg[1].src.k = "ct"
       /\ msg[1].src.key = c.key
       /\ msg[1].src.from_initiator = ~c.initiator
       /\ msg[1].src.nonce = c.rx_n
       /\ msg[1].off = 0
       /\ msg[1].n = BLen(msg[1].src.p) + TAGLEN
       /\ BLen(msg[1].src.p) <= cap
    THEN [ok |-> TRUE, payload |-> msg[1].src.p, c |-> [c EXCEPT !.rx_n = @ + 1]]
    ELSE [ok |-> FALSE]

\* What Vec::resize(len, 0) leaves in the part of rx_buffer_decrypted that a
\* failed read_message was given to write to.
Filler(n) == Run([k |-> "filler"], n)

\* The check at the top of the loop of inject_inbound_data, left out (mutant).
QueueFull_never(nz) == FALSE

\* The check at the top of the loop of inject_inbound_data.
QueueFull(nz) == BLen(nz.rx_buffer_decrypted) >= HighWaterMark

\* to_decode_slice without the length skipped in the buffer (mutant).
to_decode_slice_with_length(buf, rest, expected_len) ==
    IF BLen(buf) = 2
    THEN [taken |-> expected_len, buf |-> buf, decode |-> BTake(rest, expected_len)]
    ELSE LET remains == expected_len - (BLen(buf) - 2)
             whole   == BCat(buf, BTake(rest, remains))
         IN  [taken |-> remains, buf |-> whole, decode |-> whole]

\* The slice inject_inbound_data decodes, when rx_buffer_encrypted holds buf
\* and the frame is complete with the rest of the payload: taken from the
\* payload when the buffer holds the length only, else after the remains of
\* the frame are copied to the buffer.  Also the number of bytes taken from
\* the payload and the buffer left.
to_decode_slice(buf, rest, expected_len) ==
    IF BLen(buf) = 2
    THEN [taken |-> expected_len, buf |-> buf, decode |-> BTake(rest, expected_len)]
    ELSE LET remains == expected_len - (BLen(buf) - 2)
             whole   == BCat(buf, BTake(rest, remains))
         IN  [taken |-> remains, buf |-> whole, decode |-> BDrop(whole, 2)]

\* The check for a partial frame that takes a whole frame for one (mutant).
FrameIncomplete_or_whole(buf, rest, expected_len) ==
    BLen(buf) + BLen(rest) <= expected_len + 2

\* inject_inbound_data, with buf in rx_buffer_encrypted and rest left of the
\* payload: there is not enough data for the full frame.
FrameIncomplete(buf, rest, expected_len) ==
    BLen(buf) + BLen(rest) < expected_len + 2

\* Noise::inject_inbound_data, from the top of its loop with total_read bytes
\* read so far: the result (Ok, Err for CipherError, Panic), the state left
\* and the number of bytes read.
RECURSIVE inject_inbound_loop(_, _, _)
inject_inbound_loop(nz, payload, total_read) ==
    IF QueueFull(nz)
    THEN [res |-> "Ok", noise |-> nz, n |-> total_read]
    ELSE
    LET n1   == PrefixTaken(nz.rx_buffer_encrypted, payload)
        buf1 == BCat(nz.rx_buffer_encrypted, BTake(payload, n1))
        rest == BDrop(payload, n1)
    IN  IF BLen(buf1) < 2
        THEN [res |-> "Ok", noise |-> [nz EXCEPT !.rx_buffer_encrypted = buf1],
              n |-> total_read + n1]
        ELSE
        LET expected_len == ExpectedLen(buf1)
        IN  IF FrameIncomplete(buf1, rest, expected_len)
            THEN [res |-> "Ok",
                  noise |-> [nz EXCEPT !.rx_buffer_encrypted = BCat(buf1, rest)],
                  n |-> total_read + n1 + BLen(rest)]
            ELSE
            LET slice      == to_decode_slice(buf1, rest, expected_len)
                taken      == slice.taken
                buf2       == slice.buf
                to_decode  == slice.decode
                len_before == BLen(nz.rx_buffer_decrypted)
                r          == transport_read_message(nz.inner, to_decode, expected_len - TAGLEN)
            IN  IF len_before + expected_len < TAGLEN
                THEN [res |-> "Panic", why |-> "subtract_overflow",
                      noise |-> [nz EXCEPT !.rx_buffer_encrypted = buf2],
                      n |-> total_read + n1 + taken]
                ELSE IF expected_len < TAGLEN
                THEN [res |-> "Panic", why |-> "slice_start_past_end",
                      noise |-> [nz EXCEPT !.rx_buffer_encrypted = buf2,
                                           !.rx_buffer_decrypted =
                                               BTake(@, len_before + expected_len - TAGLEN)],
                      n |-> total_read + n1 + taken]
                ELSE IF ~r.ok
                THEN [res |-> "Err", why |-> "CipherError",
                      noise |-> [nz EXCEPT !.rx_buffer_encrypted = buf2,
                                           !.rx_buffer_decrypted =
                                               BCat(@, Filler(expected_len - TAGLEN))],
                      n |-> total_read + n1 + taken]
                ELSE inject_inbound_loop(
                        [inner |-> r.c, rx_buffer_encrypted |-> <<>>,
                         rx_buffer_decrypted |-> BCat(nz.rx_buffer_decrypted, r.payload)],
                        BDrop(rest, taken), total_read + n1 + taken)

\* Noise::inject_inbound_data
inject_inbound_data(nz, payload) == inject_inbound_loop(nz, payload, 0)

\* Noise::decoded_inbound_data
decoded_inbound_data(nz) == nz.rx_buffer_decrypted

\* Noise::consume_inbound_data: Vec::remove panics past the end.
consume_inbound_data(nz, n) ==
    IF n > BLen(nz.rx_buffer_decrypted)
    THEN [res |-> "Panic", why |-> "remove_past_end",
          noise |-> [nz EXCEPT !.rx_buffer_decrypted = <<>>]]
    ELSE [res |-> "Ok", noise |-> [nz EXCEPT !.rx_buffer_decrypted = BDrop(@, n)]]

\* Noise::encrypt_inner, from the top of its loop: the result (Ok or Panic),
\* the state left, the bytes written so far and both counts.
RECURSIVE encrypt_loop(_, _, _, _, _)
encrypt_loop(nz, payload, dest, out, total_read) ==
    IF dest < MinDestLen
    THEN [res |-> "Ok", noise |-> nz, out |-> out, read |-> total_read, written |-> BLen(out)]
    ELSE
    LET in_len == Min(BLen(payload), Min(MaxInLen, dest - FrameOverhead))
        w      == transport_write_message(nz.inner, BTake(payload, in_len), in_len + TAGLEN)
    IN  IF in_len = 0
        THEN [res |-> "Ok", noise |-> nz, out |-> out, read |-> total_read,
              written |-> BLen(out)]
        ELSE IF ~w.ok
        THEN [res |-> "Panic", why |-> "write_message", noise |-> nz, out |-> out,
              read |-> total_read, written |-> BLen(out)]
        ELSE IF BLen(w.msg) > MAXMSGLEN
        THEN [res |-> "Panic", why |-> "u16_try_from", noise |-> nz, out |-> out,
              read |-> total_read, written |-> BLen(out)]
        ELSE encrypt_loop([nz EXCEPT !.inner = w.c], BDrop(payload, in_len),
                          dest - (BLen(w.msg) + 2),
                          BCat(out, BCat(U16BE(BLen(w.msg)), w.msg)),
                          total_read + in_len)

encrypt_inner(nz, payload, dest) == encrypt_loop(nz, payload, dest, <<>>, 0)

\* All the buffers of an iterator, one after the other.
RECURSIVE Concat(_)
Concat(bufs) == IF bufs = <<>> THEN <<>> ELSE BCat(Head(bufs), Concat(Tail(bufs)))

\* Noise::encrypt of the buffers bufs into a destination of dest bytes.
encrypt(nz, bufs, dest) ==
    IF bufs = <<>>
    THEN [res |-> "Ok", noise |-> nz, out |-> <<>>, read |-> 0, written |-> 0]
    ELSE encrypt_inner(nz, Concat(bufs), dest)

\* The loop of Noise::prepare_buffer_encryption: the plaintext bytes that the
\* frames filling dest_len bytes hold, added to total.
RECURSIVE available_in_loop(_, _)
available_in_loop(total, dest_len) ==
    IF dest_len < MinDestLen THEN total
    ELSE LET in_len == Min(MaxInLen, dest_len - FrameOverhead)
         IN  available_in_loop(total + in_len, dest_len - (in_len + FrameOverhead))

\* Noise::prepare_buffer_encryption for a destination of dest bytes: the
\* length of the buffer of the BufferEncryption it returns.
prepare_buffer_encryption(dest) == available_in_loop(0, dest)

\* BufferEncryption::finish(len) on a buffer the caller filled with the bytes
\* buf, for a destination of dest bytes: encrypt of the first len bytes,
\* then the debug_assert_eq! on the number of bytes read.
finish(nz, buf, len, dest, dbg) ==
    IF len > BLen(buf)
    THEN [res |-> "Panic", why |-> "slice_end_past_len", noise |-> nz, out |-> <<>>,
          read |-> 0, written |-> 0]
    ELSE LET e == encrypt(nz, <<BTake(buf, len)>>, dest)
         IN  IF e.res = "Ok" /\ dbg /\ e.read # len
             THEN [e EXCEPT !.res = "Panic", !.why = "read_ne_len"]
             ELSE e

-----------------------------------------------------------------------------
(* Two sessions, one initiator and one responder, each driven by a caller  *)
(* that moves bytes between the session and an ordered, reliable stream.   *)

\* Lengths of the buffers the callers pass.  A call with a short buffer is
\* one of at most MaxShortCalls in a run; a destination of FullDest bytes
\* and an input holding all that has arrived can be passed at any time.
InjectSizes == {1, 2, 3, 40}

DestSizes == {1, 50}

FullDest == 2 * TxBufferSize

MaxShortCalls == 3

NoCall == [op |-> "none"]

\* No byte in flight has been altered.
NoFlip == [to |-> "none", end |-> 0, prefix |-> FALSE, frame |-> <<>>, before |-> 0]

\* The application data r sends: n bytes of its own.
AppData(r, n) == Run([k |-> "app", from |-> r], n)

\* The history of r starts a new record with the value v.
HistStart(h, r, v) == [h EXCEPT !.start[r] = v, !.acc[r] = <<>>, !.sum[r] = 0]

\* The history of r after a call that read the n bytes taken.
HistRead(h, r, taken, n) ==
    [h EXCEPT !.acc[r] = BCat(@, taken), !.sum[r] = @ + n,
              !.flip.end = IF h.flip.to = r THEN @ - n ELSE @]

\* The history of the handshake starts a new record when a call finds
\* rx_buffer_encrypted empty: the session value at that call, the bytes
\* consumed since and their number.
HistAfterInject(r, s, taken, n) ==
    HistRead(IF s.rx_buffer_encrypted = <<>> THEN HistStart(hist, r, s) ELSE hist,
             r, taken, n)

\* The history of a session that has become Success starts with its cipher.
HistAfterCall(h, r, v) == IF v.st = "Success" THEN HistStart(h, r, v.cipher) ELSE h

\* Sessions made by NoiseHandshake::new from the keys ks, with application
\* data of the lengths lens to send once the handshake is over.
InitWith(ks, dbgs, lens) ==
    /\ keys \in ks
    /\ debug_assertions \in dbgs
    /\ hs = [r \in Roles |-> HandshakeInProgress_new(keys[r], r = "I", debug_assertions)]
    /\ wire = [r \in Roles |-> <<>>]
    /\ last = NoCall
    /\ \E l \in lens : app = [r \in Roles |-> [data |-> AppData(r, l[r]), pending |-> AppData(r, l[r]),
                                            got |-> <<>>]]
    /\ hist = [start |-> [r \in Roles |-> hs[r].s],
               acc   |-> [r \in Roles |-> <<>>],
               sum   |-> [r \in Roles |-> 0],
               short |-> 0,
               flipped |-> FALSE,
               flip  |-> NoFlip]

NoData == {[r \in Roles |-> 0]}

\* The caller of r passes a destination of d bytes to write_out and sends
\* what was written.  short: the call counts as one with a short buffer.
WriteOut(r, d, short) ==
    /\ hs[r].st = "InProgress"
    /\ \E w \in {write_out(hs[r].s, d, debug_assertions)} :
           /\ hs' = [hs EXCEPT ![r] = w.v]
           /\ wire' = [wire EXCEPT ![Peer(r)] = BCat(@, w.out)]
           /\ last' = [op |-> "write_out", r |-> r, n |-> w.n, len |-> d, st |-> w.v.st]
           /\ hist' = [HistAfterCall(hist, r, w.v) EXCEPT !.short = @ + short]
    /\ UNCHANGED <<keys, debug_assertions, app>>

\* The caller of r passes the first c bytes that arrived to inject_data and
\* keeps what was not processed.
InjectData(r, c) ==
    /\ hs[r].st = "InProgress"
    /\ c <= BLen(wire[r])
    /\ \E i \in {inject_data(hs[r].s, BTake(wire[r], c), debug_assertions)} :
           /\ hs' = [hs EXCEPT ![r] = i.v]
           /\ wire' = [wire EXCEPT ![r] = BDrop(@, i.n)]
           /\ last' = [op |-> "inject_data", r |-> r, n |-> i.n, len |-> c, st |-> i.v.st,
                        all |-> c = BLen(wire[r])]
           /\ hist' = [HistAfterCall(HistAfterInject(r, hs[r].s, BTake(wire[r], i.n), i.n),
                                     r, i.v)
                          EXCEPT !.short = IF c < BLen(wire[r]) THEN @ + 1 ELSE @]
    /\ UNCHANGED <<keys, debug_assertions, app>>

ShortWriteOut(r, d) == hist.short < MaxShortCalls /\ WriteOut(r, d, 1)

FullWriteOut(r) == WriteOut(r, FullDest, 0)

EmptyWriteOut(r) == WriteOut(r, 0, 0)

ShortInjectData(r, c) ==
    /\ hist.short < MaxShortCalls
    /\ c < BLen(wire[r])
    /\ InjectData(r, c)

FullInjectData(r) == InjectData(r, BLen(wire[r]))

Init == InitWith({[r \in Roles |-> NoiseKey_new(r)]}, BOOLEAN, NoData)

Handshake ==
    \/ \E r \in Roles, d \in DestSizes : ShortWriteOut(r, d)
    \/ \E r \in Roles : FullWriteOut(r)
    \/ \E r \in Roles : EmptyWriteOut(r)
    \/ \E r \in Roles, c \in InjectSizes : ShortInjectData(r, c)
    \/ \E r \in Roles : FullInjectData(r)

Next == Handshake

Spec == Init /\ [][Next]_vars

-----------------------------------------------------------------------------
(* After the handshake: each caller encrypts its data, sends the frames,   *)
(* injects what arrives and consumes what was decoded.                     *)

\* Lengths of the buffers the callers pass to the transport operations.  A
\* destination of FrameDest bytes holds one frame of the largest size the
\* cipher accepts.
FrameDest == 2 + MAXMSGLEN

EncryptDests == {0, 18, 19, 20, 40}

InboundSizes == {1, 2, 19, 22}

ConsumeSizes == {1, 2}

\* The value r's caller holds after a transport call.
AfterCall(r, x) ==
    CASE x.res = "Ok"  -> [hs[r] EXCEPT !.cipher = x.noise]
      [] x.res = "Err" -> [st |-> "CipherError", cipher |-> x.noise]
      [] OTHER         -> Panicked(x.why)

\* The caller of r passes what it has yet to send, as one buffer, and a
\* destination of d bytes to encrypt, and sends what was written.
Encrypt(r, d, short) ==
    /\ hs[r].st = "Success"
    /\ \E e \in {encrypt(hs[r].cipher, <<app[r].pending>>, d)} :
           /\ hs' = [hs EXCEPT ![r] = AfterCall(r, e)]
           /\ wire' = [wire EXCEPT ![Peer(r)] = BCat(@, e.out)]
           /\ app' = [app EXCEPT ![r].pending = BDrop(@, e.read)]
           /\ last' = [op |-> "encrypt", r |-> r, n |-> e.read, written |-> e.written,
                        len |-> d, st |-> e.res]
    /\ hist' = [hist EXCEPT !.short = @ + short]
    /\ UNCHANGED <<keys, debug_assertions>>

\* The caller of r passes the first c bytes that arrived to
\* inject_inbound_data and keeps what was not read.
InjectInbound(r, c, short) ==
    /\ hs[r].st = "Success"
    /\ c <= BLen(wire[r])
    /\ \E i \in {inject_inbound_data(hs[r].cipher, BTake(wire[r], c))} :
           /\ hs' = [hs EXCEPT ![r] = AfterCall(r, i)]
           /\ wire' = [wire EXCEPT ![r] = IF i.res = "Ok" THEN BDrop(@, i.n) ELSE @]
           /\ last' = [op |-> "inject_inbound_data", r |-> r, n |-> i.n, len |-> c,
                        st |-> i.res,
                        before |-> BLen(hs[r].cipher.rx_buffer_decrypted),
                        buffered |-> BLen(hs[r].cipher.rx_buffer_encrypted)]
           /\ hist' = [HistRead(hist, r, BTake(wire[r], i.n), i.n)
                          EXCEPT !.short = @ + short]
    /\ UNCHANGED <<keys, debug_assertions, app>>

\* The caller of r takes the first n bytes of decoded_inbound_data and
\* consumes them.
Consume(r, n, short) ==
    /\ hs[r].st = "Success"
    /\ n >= 1
    /\ n <= BLen(decoded_inbound_data(hs[r].cipher))
    /\ \E x \in {consume_inbound_data(hs[r].cipher, n)} :
           /\ hs' = [hs EXCEPT ![r] = AfterCall(r, x)]
           /\ app' = [app EXCEPT ![r].got =
                         BCat(@, BTake(decoded_inbound_data(hs[r].cipher), n))]
           /\ last' = [op |-> "consume_inbound_data", r |-> r, n |-> n]
           /\ hist' = [HistStart(hist, r, x.noise) EXCEPT !.short = @ + short]
    /\ UNCHANGED <<keys, debug_assertions, wire>>

ShortEncrypt(r, d) == hist.short < MaxShortCalls /\ Encrypt(r, d, 1)

FrameEncrypt(r) == Encrypt(r, FrameDest, 0)

ShortInjectInbound(r, c) ==
    /\ hist.short < MaxShortCalls
    /\ c < BLen(wire[r])
    /\ InjectInbound(r, c, 1)

FullInjectInbound(r) == InjectInbound(r, BLen(wire[r]), 0)

ShortConsume(r, n) == hist.short < MaxShortCalls /\ Consume(r, n, 1)

FullConsume(r) == Consume(r, BLen(decoded_inbound_data(hs[r].cipher)), 0)

Transport ==
    \/ \E r \in Roles, d \in EncryptDests : ShortEncrypt(r, d)
    \/ \E r \in Roles : FrameEncrypt(r)
    \/ \E r \in Roles, c \in InboundSizes : ShortInjectInbound(r, c)
    \/ \E r \in Roles : FullInjectInbound(r)
    \/ \E r \in Roles, n \in ConsumeSizes : ShortConsume(r, n)
    \/ \E r \in Roles : FullConsume(r)

\* The two values a handshake between two keys of NoiseKey::new ends with,
\* every message written out and injected whole.
Established ==
    LET ks == [r \in Roles |-> NoiseKey_new(r)]
        i0 == HandshakeInProgress_new(ks["I"], TRUE, TRUE)
        r0 == HandshakeInProgress_new(ks["R"], FALSE, TRUE)
        w1 == write_out(i0.s, FullDest, TRUE)
        r1 == inject_data(r0.s, w1.out, TRUE)
        w2 == write_out(r1.v.s, FullDest, TRUE)
        i2 == inject_data(w1.v.s, w2.out, TRUE)
        w3 == write_out(i2.v.s, FullDest, TRUE)
        r3 == inject_data(w2.v.s, w3.out, TRUE)
    IN  [r \in Roles |-> IF r = "I" THEN w3.v ELSE r3.v]

\* Lengths of the application data one side sends.
PlainLens == {0, 1, 22, 30}

\* A pair of Noise values from one completed handshake; one side has data
\* of one of the lengths lens to send.
InitTransport(lens) ==
    /\ keys = [r \in Roles |-> NoiseKey_new(r)]
    /\ debug_assertions = TRUE
    /\ hs = Established
    /\ wire = [r \in Roles |-> <<>>]
    /\ last = NoCall
    /\ \E s \in Roles, l \in lens :
          app = [r \in Roles |-> [data    |-> AppData(r, IF r = s THEN l ELSE 0),
                                  pending |-> AppData(r, IF r = s THEN l ELSE 0),
                                  got     |-> <<>>]]
    /\ hist = [start |-> [r \in Roles |-> hs[r].cipher],
               acc   |-> [r \in Roles |-> <<>>],
               sum   |-> [r \in Roles |-> 0],
               short |-> 0,
               flipped |-> FALSE,
               flip  |-> NoFlip]

InitSmall == InitTransport(PlainLens)

TransportNext == Transport

TransportSpec == InitSmall /\ [][TransportNext]_vars

\* The same pair with much data to send, moved a frame at a time or all at
\* once.
BulkLens == {65519, 65520, 262144, 400000}

WideDest == 300000

WideEncrypt(r) == Encrypt(r, WideDest, 0)

FrameInjectInbound(r) == FrameDest < BLen(wire[r]) /\ InjectInbound(r, FrameDest, 0)

FrameConsume(r) ==
    /\ hs[r].st = "Success"
    /\ MaxInLen - TAGLEN < BLen(decoded_inbound_data(hs[r].cipher))
    /\ Consume(r, MaxInLen - TAGLEN, 0)

InitBulk == InitTransport(BulkLens)

BulkNext ==
    \/ \E r \in Roles : FrameEncrypt(r)
    \/ \E r \in Roles : WideEncrypt(r)
    \/ \E r \in Roles : FrameInjectInbound(r)
    \/ \E r \in Roles : FullInjectInbound(r)
    \/ \E r \in Roles : FrameConsume(r)
    \/ \E r \in Roles : FullConsume(r)

BulkSpec == InitBulk /\ [][BulkNext]_vars

\* The callers encrypt through a BufferEncryption: prepare_buffer_encryption
\* for a destination, the buffer filled with data to send, then finish.
ScratchDests == {0, 18, 19, 40, FrameDest, FrameDest + 1}

\* The caller of r asks for a BufferEncryption for a destination of d bytes.
PrepareBuffer(r, d) ==
    /\ hs[r].st = "Success"
    /\ last' = [op |-> "prepare_buffer_encryption", r |-> r, len |-> d,
                buffer |-> prepare_buffer_encryption(d)]
    /\ UNCHANGED <<hs, wire, keys, debug_assertions, app, hist>>

\* Numbers of bytes a caller may pass to finish with a buffer of s bytes.
FinishLens(s) == {0, 1, s} \cap 0..s

\* The caller of r, holding the BufferEncryption returned last, copies len
\* bytes of what it has yet to send to the buffer, calls finish(len) and
\* sends what was written.  A call that moves few bytes is one of at most
\* MaxShortCalls in a run.
Finish(r, len) ==
    /\ last.op = "prepare_buffer_encryption"
    /\ last.r = r
    /\ hs[r].st = "Success"
    /\ len <= BLen(app[r].pending)
    /\ (0 < len /\ len < MaxInLen - TAGLEN - 1) => hist.short < MaxShortCalls
    /\ \E e \in {finish(hs[r].cipher,
                        BCat(BTake(app[r].pending, len), Filler(last.buffer - len)),
                        len, last.len, debug_assertions)} :
           /\ hs' = [hs EXCEPT ![r] = AfterCall(r, e)]
           /\ wire' = [wire EXCEPT ![Peer(r)] = BCat(@, e.out)]
           /\ app' = [app EXCEPT ![r].pending = BDrop(@, e.read)]
           /\ last' = [op |-> "finish", r |-> r, n |-> e.read, asked |-> len,
                        written |-> e.written, len |-> last.len,
                        buffer |-> last.buffer, st |-> e.res]
    /\ hist' = [hist EXCEPT !.short =
                   IF 0 < len /\ len < MaxInLen - TAGLEN - 1 THEN @ + 1 ELSE @]
    /\ UNCHANGED <<keys, debug_assertions>>

\* Lengths of the data one side sends through a BufferEncryption.
ScratchLens == {22, 65520}

InitScratch == InitTransport(ScratchLens)

ScratchNext ==
    \/ \E r \in Roles, d \in ScratchDests : PrepareBuffer(r, d)
    \/ /\ last.op = "prepare_buffer_encryption"
       /\ \E r \in Roles, len \in FinishLens(last.buffer) : Finish(r, len)
    \/ \E r \in Roles : FullInjectInbound(r)
    \/ \E r \in Roles : FullConsume(r)

ScratchSpec == InitScratch /\ [][ScratchNext]_vars

\* Each key is one of NoiseKey::new or one made through
\* UnsignedNoiseKey::sign with a signature that does not belong; at most one
\* of the two is of the second kind.
InitForged ==
    InitWith({ks \in [Roles -> UNION {ForgedKeys(r) \cup {NoiseKey_new(r)} : r \in Roles}] :
                \E r \in Roles : /\ ks[r] \in ForgedKeys(r) \cup {NoiseKey_new(r)}
                                 /\ ks[Peer(r)] = NoiseKey_new(Peer(r))},
             {TRUE}, NoData)

ForgedNext == Handshake

ForgedSpec == InitForged /\ [][ForgedNext]_vars

\* The caller of r has just passed all that had arrived to inject_data, or
\* holds no session in progress any more.
InjectedAll(r) ==
    \/ hs[r].st # "InProgress"
    \/ last.op = "inject_data" /\ last.r = r /\ last.all

\* The callers keep calling: while a session is in progress its caller again
\* and again passes a full-size destination to write_out and all that has
\* arrived to inject_data.
FairSpec ==
    /\ Spec
    /\ \A r \in Roles : WF_vars(FullWriteOut(r))
    /\ \A r \in Roles : []<>InjectedAll(r)

-----------------------------------------------------------------------------
(* One bit of one byte in flight is flipped before it is delivered. *)

FlipBits == 0..7

\* Places of the byte altered, counted from the first byte in flight.
FlipAt == {0, 1, 2, 33}

\* The byte c with bit b flipped.  A byte of a key or of a ciphertext becomes
\* a byte that is not the one written.
FlipBit(c, b) ==
    IF IsLit(c)
    THEN Lit(IF (c.src.v \div (2 ^ b)) % 2 = 1 THEN c.src.v - 2 ^ b ELSE c.src.v + 2 ^ b)
    ELSE <<[src |-> [k |-> "flipped", of |-> c.src, at |-> c.off], off |-> 0, n |-> 1]>>

\* What the session of r holds of the frame it is receiving.
RxBuffer(r) ==
    CASE hs[r].st = "InProgress" -> hs[r].s.rx_buffer_encrypted
      [] hs[r].st = "Success"    -> hs[r].cipher.rx_buffer_encrypted
      [] OTHER                   -> <<>>

\* The frame of the stream s, made of whole frames, that holds the byte at
\* index i: the frame, the index after its last byte, whether the byte is one
\* of the two bytes of length, and the bytes of the frames before it.
RECURSIVE FrameAt(_, _)
FrameAt(s, i) ==
    LET len == 2 + ExpectedLen(s)
    IN  IF i < len
        THEN [frame |-> BTake(s, len), end |-> len, prefix |-> i < 2, before |-> 0]
        ELSE LET f == FrameAt(BDrop(s, len), i - len)
             IN  [f EXCEPT !.end = @ + len, !.before = @ + len]

\* Bit b of the byte at index i of what is in flight to r is flipped, once in
\* a run.  The history records the frame the byte belongs to and how many
\* bytes r has yet to read to reach its end.
Flip(r, i, b) ==
    /\ ~hist.flipped
    /\ hs[r].st \in {"InProgress", "Success"}
    /\ i < BLen(wire[r])
    /\ wire' = [wire EXCEPT ![r] =
                   BCat(BCat(BTake(@, i), FlipBit(ByteAt(@, i), b)), BDrop(@, i + 1))]
    /\ \E f \in {FrameAt(BCat(RxBuffer(r), wire[r]), BLen(RxBuffer(r)) + i)} :
          hist' = [hist EXCEPT !.flipped = TRUE,
                               !.flip = [to |-> r, end |-> f.end - BLen(RxBuffer(r)),
                                         prefix |-> f.prefix, frame |-> f.frame,
                                         before |-> f.before]]
    /\ last' = [op |-> "flip", r |-> r, at |-> i, bit |-> b]
    /\ UNCHANGED <<hs, keys, debug_assertions, app>>

\* Lengths of the data the initiator sends once its handshake is over.
TamperLens == {[r \in Roles |-> IF r = "I" THEN 22 ELSE 0]}

InitTamper == InitWith({[r \in Roles |-> NoiseKey_new(r)]}, BOOLEAN, TamperLens)

\* Whole messages and whole frames are sent; the receivers read what has
\* arrived at once or in pieces.
TamperNext ==
    \/ \E r \in Roles : FullWriteOut(r)
    \/ \E r \in Roles, c \in InjectSizes : ShortInjectData(r, c)
    \/ \E r \in Roles : FullInjectData(r)
    \/ \E r \in Roles : FrameEncrypt(r)
    \/ \E r \in Roles, c \in InboundSizes : ShortInjectInbound(r, c)
    \/ \E r \in Roles : FullInjectInbound(r)
    \/ \E r \in Roles : FullConsume(r)
    \/ \E r \in Roles, i \in FlipAt, b \in FlipBits : Flip(r, i, b)

TamperSpec == InitTamper /\ [][TamperNext]_vars

-----------------------------------------------------------------------------
(* A session whose peer drives a handshake engine itself and puts what it   *)
(* likes in the messages.                                                   *)

\* Bytes that no engine and no key wrote.
Garbage(n) == Run([k |-> "garbage"], n)

\* What the peer r may give its engine as the payload of a message: nothing,
\* the payload of its key, that payload after two bytes of length (as
\* rust-libp2p wrote it), a payload with no identity key, a payload signed by
\* another identity key, and bytes that are no payload at all.
PeerPayloads(r) ==
    { <<>>,
      NoiseKey_new(r).handshake_message,
      BCat(U16BE(PayloadLen), NoiseKey_new(r).handshake_message),
      sign(StaticOf(r), "", IdentityOf(r), payload_to_sign(StaticOf(r))).handshake_message,
      sign(StaticOf(r), IdentityOf(r), "idX", payload_to_sign(StaticOf(r))).handshake_message,
      Garbage(1), Garbage(2), Garbage(5) }

\* Lengths of the frames the peer sends that its engine did not write.
GarbageLens == {20, 32, 40}

\* The engine of the peer r.
Engine(r) == [st |-> "Engine", e |-> HandshakeState(r = "I", StaticOf(r))]

\* One side is a session of NoiseHandshake::new, the other an engine.
InitPeer ==
    /\ keys = [r \in Roles |-> NoiseKey_new(r)]
    /\ debug_assertions = TRUE
    /\ \E l \in Roles :
          hs = [r \in Roles |-> IF r = l
                                THEN HandshakeInProgress_new(keys[r], r = "I", debug_assertions)
                                ELSE Engine(r)]
    /\ wire = [r \in Roles |-> <<>>]
    /\ last = NoCall
    /\ app = [r \in Roles |-> [data |-> <<>>, pending |-> <<>>, got |-> <<>>]]
    /\ hist = [start |-> [r \in Roles |-> IF hs[r].st = "InProgress" THEN hs[r].s ELSE hs[r]],
               acc   |-> [r \in Roles |-> <<>>],
               sum   |-> [r \in Roles |-> 0],
               short |-> 0,
               flipped |-> FALSE,
               flip  |-> NoFlip]

\* The peer r has its engine write a message with the payload p and sends it
\* as a frame.
PeerWrite(r, p) ==
    /\ hs[r].st = "Engine"
    /\ \E w \in {write_message(hs[r].e, p, MAXMSGLEN)} :
          /\ w.ok
          /\ hs' = [hs EXCEPT ![r].e = w.e]
          /\ wire' = [wire EXCEPT ![Peer(r)] = BCat(@, BCat(U16BE(BLen(w.msg)), w.msg))]
    /\ last' = [op |-> "peer_write", r |-> r]
    /\ UNCHANGED <<keys, debug_assertions, app, hist>>

\* The peer r gives its engine a whole frame that has arrived.
PeerRead(r) ==
    /\ hs[r].st = "Engine"
    /\ BLen(wire[r]) >= 2
    /\ BLen(wire[r]) >= 2 + ExpectedLen(wire[r])
    /\ \E m \in {read_message(hs[r].e, BTake(BDrop(wire[r], 2), ExpectedLen(wire[r])))} :
          /\ m.ok
          /\ hs' = [hs EXCEPT ![r].e = m.e]
          /\ wire' = [wire EXCEPT ![r] = BDrop(@, 2 + ExpectedLen(wire[r]))]
    /\ last' = [op |-> "peer_read", r |-> r]
    /\ UNCHANGED <<keys, debug_assertions, app, hist>>

\* The peer r sends a frame of n bytes that its engine did not write, when
\* nothing it sent is still in flight.
PeerGarbage(r, n) ==
    /\ hs[r].st = "Engine"
    /\ wire[Peer(r)] = <<>>
    /\ hs[Peer(r)].st = "InProgress"
    /\ wire' = [wire EXCEPT ![Peer(r)] = BCat(U16BE(n), Garbage(n))]
    /\ last' = [op |-> "peer_garbage", r |-> r]
    /\ UNCHANGED <<hs, keys, debug_assertions, app, hist>>

PeerNext ==
    \/ Handshake
    \/ \E r \in Roles : \E p \in PeerPayloads(r) : PeerWrite(r, p)
    \/ \E r \in Roles : PeerRead(r)
    \/ \E r \in Roles, n \in GarbageLens : PeerGarbage(r, n)

PeerSpec == InitPeer /\ [][PeerNext]_vars

-----------------------------------------------------------------------------
(* Properties *)

Succeeded(r) == hs[r].st = "Success"

\* C1: an initiator and a responder built from two keys of NoiseKey::new,
\* over ordered reliable streams and with callers that keep calling
\* write_out and inject_data, both eventually are Success, each with the
\* identity of the other as remote_peer_id.
C1_BothSucceed ==
    <>(\A r \in Roles : Succeeded(r) /\ hs[r].remote_peer_id = IdentityOf(Peer(r)))

C1_Witness ==
    /\ \A r \in Roles : Succeeded(r) /\ hs[r].remote_peer_id = IdentityOf(Peer(r))
    /\ hist.short = MaxShortCalls

\* The session a call hands to try_finish is complete: nothing is queued for
\* sending, the engine has finished and a PeerId is recorded.
Complete(s) ==
    /\ s.tx_buffer_encrypted = <<>>
    /\ is_handshake_finished(s.inner)
    /\ s.rx_payload.received

\* Every call the caller of r can make in this state returns Success exactly
\* when the session it has reached is complete, and InProgress otherwise.
C2_Calls(r) ==
    LET s == hs[r].s
    IN  /\ \A d \in DestSizes \cup {0, FullDest} :
              LET w    == write_out(s, d, debug_assertions)
                  post == [s EXCEPT !.tx_buffer_encrypted = BDrop(@, w.n)]
              IN  w.v.st = IF Complete(post) THEN "Success" ELSE "InProgress"
        /\ \A c \in {x \in InjectSizes \cup {0, BLen(wire[r])} : x <= BLen(wire[r])} :
              LET i == inject_data(s, BTake(wire[r], c), debug_assertions)
                  p == inject_data_state(s, BTake(wire[r], c), debug_assertions)
              IN  i.v.st = IF p.fin /\ Complete(p.v.s) THEN "Success" ELSE "InProgress"

\* The step in which the initiator becomes Success is a write_out that hands
\* over the last bytes of message 3.
C2_Step ==
    (hs["I"].st = "InProgress" /\ hs'["I"].st = "Success") =>
        /\ last'.op = "write_out" /\ last'.r = "I"
        /\ last'.n >= 1
        /\ last'.n = BLen(hs["I"].s.tx_buffer_encrypted)
        /\ Len(hs["I"].s.inner.h) = NumMessages

\* C2: a session is Success only when its outbound queue is empty, the
\* engine has finished and a PeerId is recorded, and every other call
\* returns InProgress; the initiator becomes Success only from the write_out
\* that drains the last byte of message 3.
C2_SuccessOnlyWhenDrained ==
    /\ [](\A r \in Roles : hs[r].st = "InProgress" => C2_Calls(r))
    /\ [][C2_Step]_vars

C2_Witness ==
    /\ Succeeded("I")
    /\ last.op = "write_out" /\ last.r = "I"
    /\ last.n >= 1 /\ last.n < 2 + MessageLen(2, PayloadLen)
    /\ ~Succeeded("R")

\* The key is one whose payload holds a signature that does not validate
\* under the identity key of that payload over the domain string and the
\* static key of that key, which is the remote static key its peer's engine
\* observes.
BadSignature(key) == \E r \in Roles : key \in ForgedKeys(r)

\* C3: when the payload a session receives carries a signature that does not
\* validate, the inject_data call that processes the payload's message
\* returns SignatureVerificationFailed, the session records no PeerId and it
\* is never Success.
C3_ForgedSignatureRejected ==
    \A r \in Roles : BadSignature(keys[Peer(r)]) =>
        /\ hs[r].st \in {"InProgress", "Error"}
        /\ hs[r].st = "Error" => hs[r].err = "SignatureVerificationFailed"
        /\ hs[r].st = "InProgress" =>
            /\ ~hs[r].s.rx_payload.received
            /\ \A c \in {x \in InjectSizes \cup {0, BLen(wire[r])} : x <= BLen(wire[r])} :
                  LET p == inject_data_state(hs[r].s, BTake(wire[r], c), debug_assertions)
                  IN  (p.fin /\ hs[r].s.rx_payload.n = 0) =>
                          p.v = Err("SignatureVerificationFailed")

C3_Witness ==
    /\ BadSignature(keys["I"])
    /\ hs["R"] = Err("SignatureVerificationFailed")
    /\ last.op = "inject_data" /\ last.r = "R"
    /\ last.n < 2 + MessageLen(2, PayloadLen)

-----------------------------------------------------------------------------
(* A frame altered in flight *)

\* The frame holding the altered byte is a handshake message, not a frame
\* of the transport phase.
HandshakeFrame(f) == f[3].src.k \in {"e", "hs"}

\* The value a call returned is a Cipher error or a signature-verification
\* error.
RejectedBy(v) ==
    \/ v = Err("Cipher")
    \/ v = Err("SignatureVerificationFailed")
    \/ v.st = "CipherError"

\* What the caller of r has consumed, followed by what it can still read
\* from decoded_inbound_data.
Delivered(r) ==
    BCat(app[r].got, IF hs[r].st = "Success" THEN decoded_inbound_data(hs[r].cipher)
                     ELSE <<>>)

\* The frame altered never makes the handshake of its receiver a Success,
\* and nothing of it is appended to the decoded data of its receiver: what
\* the receiver has consumed and can read is sent data from before that
\* frame.
C4_NeverAccepted ==
    \A r \in Roles :
        hist.flip.to = r =>
            IF HandshakeFrame(hist.flip.frame)
            THEN hs[r].st # "Success"
            ELSE /\ Delivered(r) = BTake(app[Peer(r)].data, BLen(Delivered(r)))
                 /\ BLen(Delivered(r)) <= hist.flip.frame[3].src.p[1].off

\* A call of inject_data or inject_inbound_data by the receiver of the altered
\* frame, before the end of that frame is read, returns; the call that reads
\* the last byte of that frame returns a Cipher error or a
\* signature-verification error.
C4_Step ==
    \A r \in Roles :
        (/\ hist.flip.to = r
         /\ hist.flip.end > 0
         /\ last'.op \in {"inject_data", "inject_inbound_data"}
         /\ last'.r = r) =>
            /\ hs'[r].st # "Panic"
            /\ last'.n >= hist.flip.end => RejectedBy(hs'[r])

\* C4: with one bit of a handshake or transport frame flipped before it is
\* delivered, in its length or in its body, the call of its receiver that
\* processes that frame returns a Cipher error or a signature-verification
\* error; the frame never leads to handshake Success and nothing of it is
\* appended to the decoded inbound data.
C4_TamperDetected == [][C4_Step]_vars /\ []C4_NeverAccepted

\* inject_inbound_data has aborted on a frame of the transport phase whose
\* length was altered.
C4_Abort ==
    \E r \in Roles :
        /\ hist.flip.to = r
        /\ hist.flip.prefix
        /\ ~HandshakeFrame(hist.flip.frame)
        /\ hs[r].st = "Panic"
        /\ last.op = "inject_inbound_data"

\* The responder has read the whole of a first message whose body was
\* altered and goes on with the handshake.
C4_FirstMessageRead ==
    /\ hist.flip.to = "R"
    /\ ~hist.flip.prefix
    /\ hist.flip.end <= 0
    /\ hs["R"].st = "InProgress"
    /\ hs["R"].s.rx_messages_remain = 1

\* A call has read the last byte of a frame whose length was altered and has
\* returned no error.
C4_LengthRead ==
    \E r \in Roles :
        /\ hist.flip.to = r
        /\ hist.flip.prefix
        /\ hist.flip.end <= 0
        /\ hs[r].st \in {"InProgress", "Success"}

-----------------------------------------------------------------------------
(* Fragmentation of the handshake *)

\* C6: the bytes of an inbound handshake message given to inject_data over
\* several consecutive calls, split anywhere, leave the same value (session
\* in progress with the same buffers, payload and count, or Success with the
\* same PeerId, or the same error) as the same bytes given in one call to
\* the session the first of these calls found, and the counts of the calls
\* add up to the count of the one call.  Each call takes in all the bytes of
\* the message it is given, as long as a message is awaited.
C6_Step ==
    \A r \in Roles :
        (last'.op = "inject_data" /\ last'.r = r /\ hs[r].st = "InProgress") =>
            LET h   == HistAfterInject(r, hs[r].s, BTake(wire[r], last'.n), last'.n)
                one == inject_data(h.start[r], h.acc[r], debug_assertions)
            IN  /\ one.v = hs'[r]
                /\ one.n = h.sum[r]
                /\ last'.n = IF hs[r].s.rx_messages_remain = 0 THEN 0 ELSE last'.len

C6_ChunkedAsOne == [][C6_Step]_vars

\* The responder has Success from a call that took in the end of a message
\* whose beginning an earlier call had taken in.
C6_Witness ==
    /\ hs["R"].st = "Success"
    /\ last.op = "inject_data"
    /\ last.r = "R"
    /\ last.n >= 1
    /\ last.n < 2 + MessageLen(2, PayloadLen)
    /\ hist.short >= 2

\* A call that took in the end of a message, begun by earlier calls, has
\* returned the error of a signature that does not verify.
C6_WitnessError ==
    /\ \E r \in Roles : /\ hs[r] = Err("SignatureVerificationFailed")
                        /\ last.r = r
    /\ last.op = "inject_data"
    /\ last.n >= 1
    /\ last.n < 30

-----------------------------------------------------------------------------
(* Data through a pair of transport sessions *)

\* C5: for a pair of sessions from one completed handshake and data P of
\* 0..262144 bytes, encrypt called on one side with what of P is unread, and
\* inject_inbound_data called on the other with the bytes produced, in
\* order, go on without aborting; what the receiver has consumed and can read
\* is the beginning of P, and all of P once nothing is left to encrypt or to
\* inject.
C5_RoundTrip ==
    \A r \in Roles :
        BLen(app[Peer(r)].data) <= 262144 =>
            /\ hs[r].st = "Success"
            /\ hs[Peer(r)].st = "Success"
            /\ Delivered(r) = BTake(app[Peer(r)].data, BLen(Delivered(r)))
            /\ (app[Peer(r)].pending = <<>> /\ wire[r] = <<>>
                    => Delivered(r) = app[Peer(r)].data)

\* What a transport session holds, whether its last call returned an error
\* or not.
HasCipher(r) == hs[r].st \in {"Success", "CipherError"}

\* C7: while the decoded queue is below the threshold, the bytes that
\* inject_inbound_data has read over several calls, split anywhere, leave
\* the session as one call with the same bytes leaves the session the first
\* of these calls found: same decoded data, same buffer of the frame begun,
\* same number of frames decoded, same outcome, and the counts add up to the
\* one count.
C7_ChunkedAsOne ==
    \A r \in Roles :
        (HasCipher(r) /\ BLen(decoded_inbound_data(hs[r].cipher)) < 262144) =>
            LET one == inject_inbound_data(hist.start[r], hist.acc[r])
            IN  /\ one.res = IF hs[r].st = "Success" THEN "Ok" ELSE "Err"
                /\ decoded_inbound_data(one.noise) = decoded_inbound_data(hs[r].cipher)
                /\ one.noise.rx_buffer_encrypted = hs[r].cipher.rx_buffer_encrypted
                /\ one.noise.inner.rx_n = hs[r].cipher.inner.rx_n
                /\ one.n = hist.sum[r]

\* Frames have been decoded by several calls, the last of which completed a
\* frame in rx_buffer_encrypted and left the beginning of the next frame
\* there.
C7_Witness ==
    \E r \in Roles :
        /\ hs[r].st = "Success"
        /\ last.op = "inject_inbound_data"
        /\ last.r = r
        /\ last.buffered >= 3
        /\ hist.sum[r] > last.n
        /\ BLen(decoded_inbound_data(hs[r].cipher)) > last.before
        /\ hs[r].cipher.rx_buffer_encrypted # <<>>

\* C8: a call of inject_inbound_data that finds 262144 bytes or more in the
\* decoded queue reads nothing, fewer bytes than a non-empty input offers,
\* and changes nothing; a call that finds fewer reads some of a non-empty
\* input.  So reading resumes only once consume_inbound_data has brought the
\* queue below the threshold.
C8_Step ==
    \A r \in Roles :
        (last'.op = "inject_inbound_data" /\ last'.r = r /\ hs[r].st = "Success") =>
            IF BLen(decoded_inbound_data(hs[r].cipher)) >= 262144
            THEN /\ last'.n = 0
                 /\ hs'[r] = hs[r]
                 /\ wire'[r] = wire[r]
            ELSE last'.len > 0 => last'.n > 0

C8_Backpressure == [][C8_Step]_vars

\* A call with a non-empty input has found the queue at the threshold or
\* above and has read nothing.
C8_Witness ==
    /\ last.op = "inject_inbound_data"
    /\ last.before >= 262144
    /\ last.len > 0
    /\ last.n = 0

\* C9 as stated: the decoded queue never holds more than 262144 bytes.
C9_WithinHighWaterMark ==
    \A r \in Roles : HasCipher(r) => BLen(decoded_inbound_data(hs[r].cipher)) <= 262144

\* C9: the decoded queue never holds more than 262143 bytes and the
\* plaintext of one frame of the largest size, 65519 bytes: 327662 bytes.
C9_Bounded ==
    \A r \in Roles :
        HasCipher(r) => BLen(decoded_inbound_data(hs[r].cipher)) <= 262143 + 65519

\* A call has added a frame to a queue that was below the threshold and
\* holds more than 262144 bytes now.
C9_Witness ==
    \E r \in Roles :
        /\ hs[r].st = "Success"
        /\ last.op = "inject_inbound_data"
        /\ last.r = r
        /\ last.before < 262144
        /\ BLen(decoded_inbound_data(hs[r].cipher)) > 262144

-----------------------------------------------------------------------------
(* The payload in the handshake messages *)

\* The messages the engine of r has written and read so far, in order.
Transcript(r) ==
    IF hs[r].st = "InProgress" THEN hs[r].s.inner.h ELSE hs[r].cipher.inner.key

\* The payload carried by the j-th message of the handshake.
PayloadIn(j, msg) == IF j = 1 THEN BDrop(msg, DHLEN) ELSE msg[1].src.p

\* The number of messages r has written among the first n of the handshake.
WrittenBy(r, n) == IF r = "I" THEN (n + 1) \div 2 ELSE n \div 2

\* C10: of the handshake messages a session writes, exactly one carries the
\* local payload: the second of the initiator, whose first carries an empty
\* payload, and the first of the responder.  Once it is written the session
\* holds no payload to send.
C10_PayloadOnce ==
    \A r \in Roles :
        hs[r].st \in {"InProgress", "Success"} =>
            /\ \A j \in 1..Len(Transcript(r)) :
                   ((j % 2 = 1) <=> (r = "I")) =>
                       PayloadIn(j, Transcript(r)[j]) =
                           IF r = "I" /\ j = 1 THEN <<>> ELSE keys[r].handshake_message
            /\ hs[r].st = "InProgress" =>
                   (hs[r].s.tx_payload.some <=>
                        WrittenBy(r, Len(Transcript(r))) < IF r = "I" THEN 2 ELSE 1)

\* Both sessions have written all their messages, the initiator's last one
\* by the last call, and the responder holds no payload to send.
C10_Witness ==
    /\ hs["I"].st = "Success"
    /\ Len(Transcript("I")) = NumMessages
    /\ last.op = "write_out"
    /\ last.r = "I"
    /\ hs["R"].st = "InProgress"
    /\ Len(Transcript("R")) = 2
    /\ ~hs["R"].s.tx_payload.some

-----------------------------------------------------------------------------
(* The payload in the messages received *)

\* The bytes of the frame the session s is receiving, with what is in flight
\* to it: what it holds followed by the bytes w.
Incoming(s, w) == BCat(s.rx_buffer_encrypted, w)

\* A call of inject_data on the session s that reads n of the bytes w reads
\* the last byte of a frame.
CompletesFrame(s, w, n) ==
    /\ s.rx_messages_remain > 0
    /\ BLen(s.rx_buffer_encrypted) + n >= 2
    /\ BLen(s.rx_buffer_encrypted) + n = 2 + ExpectedLen(Incoming(s, w))

\* The value v holds no PeerId.
NoPeerId(v) ==
    \/ v.st \in {"Error", "Panic"}
    \/ v.st = "InProgress" /\ ~v.s.rx_payload.received

\* The value v holds the PeerId id.
HasPeerId(v, id) ==
    \/ v.st = "InProgress" /\ v.s.rx_payload.received /\ v.s.rx_payload.peer_id = id
    \/ v.st = "Success" /\ v.remote_peer_id = id

\* C11, for one call: a call that reads the last byte of the first message
\* a responder receives records no PeerId, fails with UnexpectedPayload when
\* the message holds more than a key, and goes on when it holds a key only.
\* A call that reads the last byte of the first message an initiator
\* receives, or of the second a responder receives, fails or records a
\* PeerId.  Any other call leaves the PeerId as it is.
C11_Step ==
    \A r \in Roles :
        (last'.op = "inject_data" /\ last'.r = r /\ hs[r].st = "InProgress") =>
            LET s   == hs[r].s
                pos == s.inner.pos
                len == ExpectedLen(Incoming(s, wire[r]))
            IN  IF ~CompletesFrame(s, wire[r], last'.n)
                THEN /\ hs'[r].st = "InProgress"
                     /\ hs'[r].s.rx_payload = s.rx_payload
                ELSE IF pos = 0
                THEN /\ NoPeerId(hs'[r])
                     /\ len > DHLEN => hs'[r] = Err("UnexpectedPayload")
                     /\ len = DHLEN => hs'[r].st = "InProgress"
                ELSE /\ ~s.rx_payload.received
                     /\ \/ hs'[r].st = "Error"
                        \/ \E id \in {IdentityOf(Peer(r))} : HasPeerId(hs'[r], id)

\* C11: the payload is decoded and verified on the first message an
\* initiator receives and on the second a responder receives, and on no
\* other; a payload in the first message a responder receives makes
\* inject_data fail with UnexpectedPayload; a PeerId, once recorded, stays.
C11_PayloadOnExpected ==
    /\ [][C11_Step]_vars
    /\ [][\A r \in Roles :
             (hs[r].st = "InProgress" /\ hs[r].s.rx_payload.received) =>
                 HasPeerId(hs'[r], hs[r].s.rx_payload.peer_id)]_vars

\* A responder has failed with UnexpectedPayload on a first message read in
\* pieces.
C11_Witness ==
    /\ hs["R"] = Err("UnexpectedPayload")
    /\ last.op = "inject_data"
    /\ last.n < 2 + DHLEN
    /\ hist.short >= 1

\* C12: a call of inject_data on a session that awaits no more handshake
\* messages reads none of the bytes it is given and returns the session as
\* it was, at every such call.
C12_Step ==
    \A r \in Roles :
        (/\ last'.op = "inject_data"
         /\ last'.r = r
         /\ hs[r].st = "InProgress"
         /\ hs[r].s.rx_messages_remain = 0) =>
            /\ last'.n = 0
            /\ hs'[r] = hs[r]
            /\ wire'[r] = wire[r]

C12_NoMoreMessages == [][C12_Step]_vars

\* An initiator that has read its one message was given bytes again and read
\* none.
C12_Witness ==
    /\ hs["I"].st = "InProgress"
    /\ hs["I"].s.rx_messages_remain = 0
    /\ last.op = "inject_data"
    /\ last.r = "I"
    /\ last.len > 0
    /\ last.n = 0
    /\ wire["I"] # <<>>

-----------------------------------------------------------------------------
(* The frames encrypt writes *)

\* The bytes a call wrote: what is in flight to the peer of r after the call
\* and was not before.
Written(r) == BDrop(wire'[Peer(r)], BLen(wire[Peer(r)]))

\* The bytes out are whole frames: two bytes of length, big endian, then a
\* ciphertext of that length, which is the length of its plaintext and 16,
\* at most 65535, with at least one byte of plaintext.
RECURSIVE WholeFrames(_)
WholeFrames(out) ==
    \/ out = <<>>
    \/ /\ Len(out) >= 3
       /\ IsLit(out[1])
       /\ IsLit(out[2])
       /\ out[3].src.k = "ct"
       /\ out[3].off = 0
       /\ out[3].n = ExpectedLen(out)
       /\ out[3].n = BLen(out[3].src.p) + 16
       /\ out[3].n <= 65535
       /\ BLen(out[3].src.p) >= 1
       /\ WholeFrames(SubSeq(out, 4, Len(out)))

\* The number of frames in bytes that are whole frames, and the length of
\* their plaintexts together.
FrameCount(out) == Len(out) \div 3

RECURSIVE PlainLen(_)
PlainLen(out) ==
    IF out = <<>> THEN 0 ELSE BLen(out[3].src.p) + PlainLen(SubSeq(out, 4, Len(out)))

\* C13: every call of encrypt, whatever the lengths of the payload and of
\* the destination, completes without aborting and writes frames whose two
\* bytes of length hold the length of the plaintext and 16, at most 65535; a
\* payload too long for one frame goes into several.
C13_Step ==
    \A r \in Roles :
        (last'.op = "encrypt" /\ last'.r = r) =>
            /\ last'.st = "Ok"
            /\ WholeFrames(Written(r))
            /\ PlainLen(Written(r)) = last'.n

C13_FramesWithinLimit == [][C13_Step]_vars

\* The same for the calls that return.
C13_StepReturned ==
    \A r \in Roles :
        (last'.op = "encrypt" /\ last'.r = r /\ last'.st = "Ok") =>
            /\ WholeFrames(Written(r))
            /\ PlainLen(Written(r)) = last'.n

C13_FramesWhenReturned == [][C13_StepReturned]_vars

\* encrypt has aborted on a payload of more than 65519 bytes.
C13_Abort ==
    \E r \in Roles :
        /\ hs[r].st = "Panic"
        /\ last.op = "encrypt"
        /\ last.r = r
        /\ last.len >= 65538
        /\ BLen(app[r].pending) >= 65520

\* C14, for one call: encrypt returns (read, written) where written is read
\* and 18 for each frame written, is the number of bytes written and is at
\* most the length of the destination; the bytes written are whole frames,
\* none empty; all the payload was read or fewer than 19 bytes of the
\* destination are left; with nothing to read or a destination of fewer
\* than 19 bytes it returns (0, 0) and writes nothing.
C14_Step ==
    \A r \in Roles :
        (last'.op = "encrypt" /\ last'.r = r /\ last'.st = "Ok") =>
            /\ WholeFrames(Written(r))
            /\ last'.written = BLen(Written(r))
            /\ last'.written = last'.n + 18 * FrameCount(Written(r))
            /\ last'.n = PlainLen(Written(r))
            /\ last'.written <= last'.len
            /\ \/ last'.n = BLen(app[r].pending)
               \/ last'.len - last'.written < 19
            /\ (app[r].pending = <<>> \/ last'.len < 19) =>
                   (last'.n = 0 /\ last'.written = 0 /\ hs'[r] = hs[r])

\* encrypt given no buffer returns (0, 0); given the payload in two buffers
\* it returns what it returns given the payload in one.
C14_Buffers ==
    \A r \in Roles :
        hs[r].st = "Success" =>
            \A d \in EncryptDests \cup {FrameDest} :
                LET none == encrypt(hs[r].cipher, <<>>, d)
                    one  == encrypt(hs[r].cipher, <<app[r].pending>>, d)
                    two  == encrypt(hs[r].cipher,
                                    <<BTake(app[r].pending, 1), BDrop(app[r].pending, 1)>>, d)
                    more == encrypt(hs[r].cipher,
                                    <<BTake(app[r].pending, 1), <<>>,
                                      BDrop(app[r].pending, 1)>>, d)
                IN  /\ none.read = 0 /\ none.written = 0 /\ none.noise = hs[r].cipher
                    /\ two = one
                    /\ more = one

C14_ExactCounts == [][C14_Step]_vars /\ []C14_Buffers

\* A call has written a frame of part of the payload and stopped with
\* payload left and fewer than 19 bytes of the destination unused.
C14_Witness ==
    /\ last.op = "encrypt"
    /\ last.st = "Ok"
    /\ last.n >= 1
    /\ last.written = last.n + 18
    /\ last.len - last.written < 19
    /\ app[last.r].pending # <<>>

-----------------------------------------------------------------------------
(* What the calls of the receiving side return.                             *)

\* C15, for one call: inject_inbound_data returns Ok or CipherError.
C15_Step ==
    last'.op = "inject_inbound_data" => last'.st \in {"Ok", "Err"}

\* C15: whatever bytes arrive, a frame declaring fewer than 16 bytes
\* included, every call to inject_inbound_data returns Ok with the number of
\* bytes read or CipherError; none aborts.
C15_AlwaysReturns == [][C15_Step]_vars

\* A frame whose length bytes declare fewer than 16 bytes has reached a
\* session with nothing decoded and the call has aborted on the length of
\* the buffer of decoded data.
C15_Abort ==
    /\ last.op = "inject_inbound_data"
    /\ last.st = "Panic"
    /\ last.before = 0
    /\ hs[last.r] = Panicked("subtract_overflow")

\* A call has returned CipherError.
C15_CipherError ==
    /\ last.op = "inject_inbound_data"
    /\ last.st = "Err"
    /\ hs[last.r].st = "CipherError"

\* A handshake that returned the error e.
Failed(v) == "err" \in DOMAIN v

\* C16, the value returned: an error is one of the five of HandshakeError
\* and comes with no session, no PeerId and no cipher.
C16_NoSession ==
    \A r \in Roles :
        Failed(hs[r]) =>
            /\ DOMAIN hs[r] = {"st", "err"}
            /\ hs[r].st = "Error"
            /\ hs[r].err \in HandshakeError

\* C16, what follows: no operation is performed on a handshake that
\* returned an error, and it stays as it is.
C16_Step ==
    \A r \in Roles :
        Failed(hs[r]) =>
            /\ hs'[r] = hs[r]
            /\ ~(last'.op \in {"inject_data", "write_out"} /\ last'.r = r /\ last' # last)

\* C16: an error returned by inject_data is terminal: the call returns no
\* session, so no operation follows on that handshake and it never yields
\* Success, a PeerId or a transport cipher.
C16_ErrorIsTerminal == []C16_NoSession /\ [][C16_Step]_vars

\* The peer has sent a message more to a handshake that had returned an
\* error.
C16_Witness ==
    \E r \in Roles :
        /\ Failed(hs[r])
        /\ last.op = "peer_write"
        /\ last.r = Peer(r)
        /\ wire[r] # <<>>

\* Each error of HandshakeError has been returned.
C16_Returned(e) == \E r \in Roles : Failed(hs[r]) /\ hs[r].err = e /\ last.op = "inject_data"

-----------------------------------------------------------------------------
(* The decoding of the payload received *)

\* The message in the frame that the session s is receiving and w completes.
MessageOf(s, w) == BTake(BDrop(Incoming(s, w), 2), ExpectedLen(Incoming(s, w)))

\* The value v is what inject_data returns once the payload has decoded to
\* d in a message of the peer whose static key is rs.
Uses(v, d, rs) ==
    IF ~from_protobuf_encoding(d.identity_key) THEN v.st = "Error" /\ v.err = "InvalidKey"
    ELSE IF ~verify(d.identity_key, payload_to_sign(rs), d.identity_sig)
    THEN v.st = "Error" /\ v.err = "SignatureVerificationFailed"
    ELSE HasPeerId(v, d.identity_key)

\* C17, for one call: a call that reads the last byte of a message in which
\* the payload is expected uses the standard decoding of the payload when
\* there is one; when there is none and the payload has two bytes or more,
\* it uses the decoding of the payload without its first two bytes; when
\* that fails too, or the payload is shorter, it returns PayloadDecode.
C17_Step ==
    \A r \in Roles :
        (/\ last'.op = "inject_data"
         /\ last'.r = r
         /\ hs[r].st = "InProgress"
         /\ CompletesFrame(hs[r].s, wire[r], last'.n)
         /\ hs[r].s.inner.pos >= 1
         /\ read_message(hs[r].s.inner, MessageOf(hs[r].s, wire[r])).ok) =>
            LET m  == read_message(hs[r].s.inner, MessageOf(hs[r].s, wire[r]))
                P  == m.payload
                d1 == decode(P)
                d2 == decode(BDrop(P, 2))
            IN  IF d1.ok THEN Uses(hs'[r], d1, m.e.rs)
                ELSE IF BLen(P) >= 2 /\ d2.ok THEN Uses(hs'[r], d2, m.e.rs)
                ELSE hs'[r].st = "Error" /\ hs'[r].err = "PayloadDecode"

C17_DecodeFallback == [][C17_Step]_vars

\* The payload received last by the session of r.
LastPayload(r) == PayloadIn(Len(Transcript(r)), Transcript(r)[Len(Transcript(r))])

\* A payload that follows two bytes of length has been accepted: its
\* standard decoding failed and the second attempt gave the PeerId.
C17_Witness ==
    \E r \in Roles :
        /\ last.op = "inject_data"
        /\ last.r = r
        /\ HasPeerId(hs[r], IdentityOf(Peer(r)))
        /\ Len(Transcript(r)) >= 2
        /\ BLen(LastPayload(r)) = 2 + PayloadLen
        /\ ~decode(LastPayload(r)).ok

\* PayloadDecode was returned on a payload of n bytes.
C17_PayloadDecode(n) ==
    \E r \in Roles :
        /\ hs[r].st = "Error" /\ hs[r].err = "PayloadDecode"
        /\ last.op = "inject_data"
        /\ \E p \in PeerPayloads(Peer(r)) :
              /\ BLen(p) = n
              /\ wire[r] = <<>>
              /\ hs[Peer(r)].e.h # <<>>
              /\ PayloadIn(Len(hs[Peer(r)].e.h), hs[Peer(r)].e.h[Len(hs[Peer(r)].e.h)]) = p

\* The second attempt, on a payload of two bytes, decoded the empty payload.
C17_SecondAttemptEmpty ==
    \E r \in Roles :
        /\ hs[r].st = "Error" /\ hs[r].err = "InvalidKey"
        /\ last.op = "inject_data"
        /\ wire[r] = <<>>
        /\ hs[Peer(r)].e.h # <<>>
        /\ PayloadIn(Len(hs[Peer(r)].e.h), hs[Peer(r)].e.h[Len(hs[Peer(r)].e.h)]) = Garbage(2)

-----------------------------------------------------------------------------
(* The turns of the handshake *)

\* The j-th message of the handshake is one that r writes.
Writes(r, j) == (j % 2 = 1) <=> (r = "I")

\* The outbound queue of r, empty once the handshake is over.
Queue(r) == IF hs[r].st = "InProgress" THEN hs[r].s.tx_buffer_encrypted ELSE <<>>

\* The message m as it is queued: its length on two bytes, then m.
Framed(m) == BCat(U16BE(BLen(m)), m)

\* C18, in every state: the engine of an initiator has written message 1,
\* or messages 1 and 3 and read message 2; that of a responder has done
\* nothing, or read message 1 and written message 2, or read message 3 as
\* well; never more than 3 messages.  What is queued is the end of the last
\* message the session wrote.  A responder that has read nothing has an empty
\* queue; an initiator has message 1 queued in full as long as nothing of it
\* was sent.  The messages a session read are those its peer wrote.  A
\* session that is Success has written and read all its messages.
C18_Turns ==
    \A r \in Roles :
        hs[r].st \in {"InProgress", "Success"} =>
            LET n == Len(Transcript(r))
            IN  /\ n \in (IF r = "I" THEN {1, 3} ELSE {0, 2, 3})
                /\ n <= NumMessages
                /\ WrittenBy(r, n) <= (IF r = "I" THEN 2 ELSE 1)
                /\ n - WrittenBy(r, n) <= (IF r = "I" THEN 1 ELSE 2)
                /\ Queue(r) # <<>> =>
                       /\ n >= 1 /\ Writes(r, n)
                       /\ BLen(Queue(r)) <= BLen(Framed(Transcript(r)[n]))
                       /\ Queue(r) = BDrop(Framed(Transcript(r)[n]),
                                           BLen(Framed(Transcript(r)[n])) - BLen(Queue(r)))
                /\ (r = "R" /\ n = 0) => Queue(r) = <<>>
                /\ (r = "I" /\ n = 1 /\ wire["R"] = <<>> /\ Transcript("R") = <<>>
                            /\ hs["R"].s.rx_buffer_encrypted = <<>>) =>
                       Queue(r) = Framed(Transcript(r)[1])
                /\ hs[Peer(r)].st \in {"InProgress", "Success"} =>
                       \A j \in 1..Min(n, Len(Transcript(Peer(r)))) :
                           Transcript(r)[j] = Transcript(Peer(r))[j]
                /\ hs[r].st = "Success" =>
                       /\ n = NumMessages
                       /\ WrittenBy(r, n) = (IF r = "I" THEN 2 ELSE 1)
                       /\ n - WrittenBy(r, n) = (IF r = "I" THEN 1 ELSE 2)

\* C18, for one call: the engine of a session reads a message, and the
\* session queues one, only in a call of inject_data that reads the last
\* byte of a frame holding the next message of the peer; the message queued
\* is the one that follows it.
C18_Step ==
    \A r \in Roles :
        (hs[r].st = "InProgress" /\ hs'[r].st \in {"InProgress", "Success"}) =>
            LET n  == Len(Transcript(r))
                n2 == Len(hs'[r].s.inner.h)
            IN  IF hs'[r].st = "Success" \/ n2 = n
                THEN \/ hs'[r].st = "Success"
                     \/ /\ hs'[r].s.inner.h = Transcript(r)
                        /\ BLen(hs'[r].s.tx_buffer_encrypted) <= BLen(Queue(r))
                ELSE /\ last'.op = "inject_data" /\ last'.r = r
                     /\ CompletesFrame(hs[r].s, wire[r], last'.n)
                     /\ ~Writes(r, n + 1)
                     /\ hs[Peer(r)].st \in {"InProgress", "Success"}
                     /\ Len(Transcript(Peer(r))) >= n + 1
                     /\ MessageOf(hs[r].s, wire[r]) = Transcript(Peer(r))[n + 1]
                     /\ hs'[r].s.inner.h[n + 1] = MessageOf(hs[r].s, wire[r])
                     /\ Queue(r) = <<>>
                     /\ IF n + 1 < NumMessages
                        THEN /\ n2 = n + 2
                             /\ hs'[r].s.tx_buffer_encrypted = Framed(hs'[r].s.inner.h[n + 2])
                        ELSE /\ n2 = n + 1
                             /\ hs'[r].s.tx_buffer_encrypted = <<>>

\* C18: messages are written on the writer's turn only and there are exactly
\* 3 of them.
C18_Alternation == []C18_Turns /\ [][C18_Step]_vars

\* Both sessions are Success after calls with short buffers: the initiator
\* has written 2 messages and read 1, the responder has written 1 and read 2.
C18_Witness ==
    /\ hs["I"].st = "Success" /\ hs["R"].st = "Success"
    /\ Len(Transcript("I")) = 3 /\ Len(Transcript("R")) = 3
    /\ WrittenBy("I", 3) = 2 /\ WrittenBy("R", 3) = 1
    /\ hist.short >= 2

-----------------------------------------------------------------------------
(* The completion check *)

\* C19: whenever the engine of a session reports the handshake finished, the
\* payload of the peer has been received and a PeerId is recorded, and
\* try_finish never reaches its branch for a payload still awaited.
C19_PayloadBeforeFinished ==
    \A r \in Roles :
        /\ hs[r] # Panicked("unreachable")
        /\ (hs[r].st = "InProgress" /\ is_handshake_finished(hs[r].s.inner)) =>
               /\ hs[r].s.rx_payload.received
               /\ hs[r].s.rx_payload.peer_id = IdentityOf(Peer(r))
        /\ hs[r].st = "Success" =>
               /\ Len(hs[r].cipher.inner.key) = NumMessages
               /\ hs[r].remote_peer_id = IdentityOf(Peer(r))

\* The engine of an initiator is finished and its last message is still
\* queued, after a message read in pieces.
C19_Witness ==
    /\ hs["I"].st = "InProgress"
    /\ is_handshake_finished(hs["I"].s.inner)
    /\ hs["I"].s.tx_buffer_encrypted # <<>>
    /\ hs["I"].s.rx_payload.received
    /\ hist.short >= 1

\* A responder is Success: try_finish has passed its check.
C19_Passed ==
    /\ hs["R"].st = "Success"
    /\ last.op = "inject_data"
    /\ hist.short >= 1

-----------------------------------------------------------------------------
(* The bytes write_out writes *)

\* The messages r writes among the first n of the transcript h, each after
\* its length, one after the other.
RECURSIVE FramedBy(_, _, _)
FramedBy(r, h, n) ==
    IF n = 0 THEN <<>>
    ELSE BCat(FramedBy(r, h, n - 1), IF Writes(r, n) THEN Framed(h[n]) ELSE <<>>)

\* All the bytes the calls of write_out of r have written so far: the
\* messages its peer has read, what its peer holds of the next, and what is
\* in flight.
Sent(r) ==
    BCat(BCat(FramedBy(r, Transcript(Peer(r)), Len(Transcript(Peer(r)))),
              RxBuffer(Peer(r))),
         wire[Peer(r)])

\* C20, for one call: write_out writes the first min(length of the queue,
\* length of the destination) bytes of the queue and leaves the rest queued.
C20_Step ==
    \A r \in Roles :
        (last'.op = "write_out" /\ last'.r = r /\ last' # last) =>
            LET n == Min(BLen(Queue(r)), last'.len)
            IN  /\ last'.n = n
                /\ wire'[Peer(r)] = BCat(wire[Peer(r)], BTake(Queue(r), n))
                /\ hs'[r].st \in {"InProgress", "Success"}
                /\ hs'[r].st = "InProgress" =>
                       /\ hs'[r].s.tx_buffer_encrypted = BDrop(Queue(r), n)
                       /\ hs'[r].s.inner = hs[r].s.inner
                /\ hs'[r].st = "Success" => n = BLen(Queue(r))

\* C20, over the calls: the bytes written so far, followed by the queue,
\* are the messages the session has written, each after its two bytes of
\* length, in the order they were written.
C20_Stream ==
    \A r \in Roles :
        BCat(Sent(r), Queue(r)) = FramedBy(r, Transcript(r), Len(Transcript(r)))

C20_WriteOut == [][C20_Step]_vars /\ []C20_Stream

\* A call with a destination of 50 bytes has filled it and left part of a
\* message queued, after two calls or more with short buffers.
C20_Witness ==
    /\ last.op = "write_out"
    /\ last.len = 50
    /\ last.n = 50
    /\ Queue(last.r) # <<>>
    /\ hist.short >= 2

\* A call with an empty destination has written nothing of a queued message.
C20_EmptyDest ==
    /\ last.op = "write_out"
    /\ last.len = 0
    /\ last.n = 0
    /\ Queue(last.r) # <<>>

-----------------------------------------------------------------------------
(* Encryption through a BufferEncryption *)

\* C21, for one call: finish(len), with len at most the length of the buffer
\* that prepare_buffer_encryption returned for the destination, encrypts all
\* len bytes and writes at most as many bytes as the destination has; with
\* len the length of the buffer it leaves fewer than 19 bytes unused.
C21_Step ==
    last'.op = "finish" =>
        /\ last'.st = "Ok"
        /\ last'.n = last'.asked
        /\ last'.written <= last'.len
        /\ last'.asked = last'.buffer => last'.len - last'.written < 19

C21_FinishEncryptsAll == [][C21_Step]_vars

\* The same, for the calls that return.
C21_StepReturned ==
    (last'.op = "finish" /\ last'.st = "Ok") =>
        /\ last'.n = last'.asked
        /\ last'.written <= last'.len
        /\ last'.asked = last'.buffer => last'.len - last'.written < 19

C21_FinishWhenReturned == [][C21_StepReturned]_vars

\* finish has aborted on a buffer filled to its end, for a destination of
\* 65538 bytes.
C21_Abort ==
    /\ last.op = "finish"
    /\ last.st = "Panic"
    /\ last.len = FrameDest + 1
    /\ last.asked = last.buffer
    /\ last.buffer = MaxInLen - TAGLEN

\* finish has filled a destination of 65537 bytes with one frame.
C21_Filled ==
    /\ last.op = "finish"
    /\ last.st = "Ok"
    /\ last.len = FrameDest
    /\ last.asked = last.buffer
    /\ last.written = last.len

-----------------------------------------------------------------------------
(* The assertion on the frame buffer of the handshake *)

\* A call of inject_data on the session s that reads n of the bytes w has
\* the two bytes of length of a frame.
PrefixAssembled(s, w, n) ==
    /\ s.rx_messages_remain > 0
    /\ BLen(s.rx_buffer_encrypted) + n >= 2

\* rx_buffer_encrypted of s once the bytes of length are in it, at the
\* assertion of inject_data.
AtAssertion(s, w) ==
    BCat(s.rx_buffer_encrypted, BTake(w, PrefixTaken(s.rx_buffer_encrypted, w)))

\* C22, for one call: in a call of inject_data that has the two bytes of
\* length, the frame buffer then holds fewer than 2 + declared length bytes,
\* and the call returns a session or a HandshakeError.
C22_Step ==
    \A r \in Roles :
        (/\ last'.op = "inject_data"
         /\ last'.r = r
         /\ hs[r].st = "InProgress"
         /\ PrefixAssembled(hs[r].s, wire[r], last'.n)) =>
            /\ BLen(AtAssertion(hs[r].s, wire[r]))
                   < 2 + ExpectedLen(AtAssertion(hs[r].s, wire[r]))
            /\ last'.st \in {"InProgress", "Success", "Error"}

C22_AssertionHolds == [][C22_Step]_vars

\* The same for the frames that declare a length other than 0, and for those
\* that declare 0 in a build without debug assertions: a Cipher error.
C22_StepNonZero ==
    \A r \in Roles :
        (/\ last'.op = "inject_data"
         /\ last'.r = r
         /\ hs[r].st = "InProgress"
         /\ PrefixAssembled(hs[r].s, wire[r], last'.n)) =>
            IF ExpectedLen(AtAssertion(hs[r].s, wire[r])) # 0
            THEN /\ BLen(AtAssertion(hs[r].s, wire[r]))
                        < 2 + ExpectedLen(AtAssertion(hs[r].s, wire[r]))
                 /\ last'.st \in {"InProgress", "Success", "Error"}
            ELSE IF debug_assertions
            THEN hs'[r] = Panicked("frame_buffer_full")
            ELSE hs'[r].st = "Error" /\ hs'[r].err = "Cipher"

C22_AssertionWhenNonZero == [][C22_StepNonZero]_vars

\* inject_data has aborted at its assertion on a frame whose bytes of length
\* were altered to declare 0.
C22_Abort ==
    \E r \in Roles :
        /\ debug_assertions
        /\ hs[r] = Panicked("frame_buffer_full")
        /\ last.op = "inject_data"
        /\ last.r = r
        /\ hist.flip.to = r
        /\ hist.flip.prefix

\* Without debug assertions the same frame gives a Cipher error.
C22_ZeroIsCipher ==
    \E r \in Roles :
        /\ ~debug_assertions
        /\ hs[r].st = "Error" /\ hs[r].err = "Cipher"
        /\ last.op = "inject_data"
        /\ last.r = r
        /\ last.n <= 2
        /\ hist.flip.to = r
        /\ hist.flip.prefix

-----------------------------------------------------------------------------
(* The buffer of the frame being received *)

\* The bytes buf are none, or one byte, or the two bytes of length of a
\* frame and fewer bytes than they declare.
PartialFrame(buf) ==
    \/ BLen(buf) <= 1
    \/ BLen(buf) < 2 + (ByteAt(buf, 0).src.v * 256 + ByteAt(buf, 1).src.v)

\* C23, in every state a call has returned Ok to: rx_buffer_encrypted is
\* empty or the beginning of one frame, short of its end, and with what is
\* in flight it makes whole frames.
C23_Buffer ==
    \A r \in Roles :
        hs[r].st = "Success" =>
            /\ PartialFrame(hs[r].cipher.rx_buffer_encrypted)
            /\ WholeFrames(BCat(hs[r].cipher.rx_buffer_encrypted, wire[r]))

\* C23, for one call: a call of inject_inbound_data that returns Ok has
\* decrypted every frame whose last byte it read: the decoded data grows by
\* the plaintext of the frames that are no longer in the buffer or in
\* flight.
C23_Step ==
    \A r \in Roles :
        (last'.op = "inject_inbound_data" /\ last'.r = r /\ last'.st = "Ok") =>
            LET before == BCat(hs[r].cipher.rx_buffer_encrypted, wire[r])
                after  == BCat(hs'[r].cipher.rx_buffer_encrypted, wire'[r])
                gone   == BTake(before, BLen(before) - BLen(after))
            IN  /\ after = BDrop(before, BLen(gone))
                /\ WholeFrames(gone)
                /\ BLen(hs'[r].cipher.rx_buffer_encrypted)
                       = BLen(hs[r].cipher.rx_buffer_encrypted) + last'.n - BLen(gone)
                /\ BLen(decoded_inbound_data(hs'[r].cipher))
                       = BLen(decoded_inbound_data(hs[r].cipher)) + PlainLen(gone)

C23_PartialFrameOnly == []C23_Buffer /\ [][C23_Step]_vars

\* A call that found the beginning of a frame buffered has read its last
\* byte, decrypted it and buffered the beginning of the next frame.
C23_Witness ==
    \E r \in Roles :
        /\ hs[r].st = "Success"
        /\ last.op = "inject_inbound_data"
        /\ last.r = r
        /\ last.buffered >= 1
        /\ BLen(decoded_inbound_data(hs[r].cipher)) > last.before
        /\ hs[r].cipher.rx_buffer_encrypted # <<>>

-----------------------------------------------------------------------------
(* The bytes inject_data leaves to the caller *)

\* C24, for one call: inject_data reads no byte past the end of the frame it
\* is receiving, so at most one frame: with the bytes of length in hand it
\* reads at most 2 + declared length less what it held, and before that all
\* of an input too short to complete them.  When the call of a responder
\* that completes the third message returns Success it has read exactly the
\* rest of that message, and what followed in the input is left in flight.
C24_Step ==
    \A r \in Roles :
        (last'.op = "inject_data" /\ last'.r = r /\ hs[r].st = "InProgress") =>
            LET s        == hs[r].s
                buffered == BLen(s.rx_buffer_encrypted)
                input    == BTake(wire[r], last'.len)
            IN  /\ wire'[r] = BDrop(wire[r], last'.n)
                /\ last'.n <= last'.len
                /\ IF s.rx_messages_remain = 0 THEN last'.n = 0
                   ELSE IF buffered + last'.len < 2 THEN last'.n = last'.len
                   ELSE LET declared == ByteAt(BCat(s.rx_buffer_encrypted, input), 0).src.v * 256
                                          + ByteAt(BCat(s.rx_buffer_encrypted, input), 1).src.v
                        IN  /\ last'.n <= 2 + declared - buffered
                            /\ (r = "R" /\ hs'[r].st = "Success") =>
                                   /\ s.inner.pos = 2
                                   /\ declared = MessageLen(2, PayloadLen)
                                   /\ last'.n = 2 + declared - buffered

C24_OneFrameAtMost == [][C24_Step]_vars

\* A responder given the end of the third message followed by a frame of the
\* transport phase has returned Success and left the frame to the caller.
C24_Witness ==
    /\ hs["R"].st = "Success"
    /\ last.op = "inject_data"
    /\ last.r = "R"
    /\ last.all
    /\ last.n < last.len
    /\ BLen(wire["R"]) = last.len - last.n
    /\ BLen(wire["R"]) >= 19
    /\ hs["R"].cipher.rx_buffer_encrypted = <<>>

-----------------------------------------------------------------------------
(* The queue when a message is written *)

\* The session value v holds a message that the session value u had not
\* written.
Produced(r, u, v) ==
    /\ v.st = "InProgress"
    /\ Len(v.s.inner.h) > Len(u.s.inner.h)
    /\ Writes(r, Len(v.s.inner.h))

\* C25, for one call: a call in which a session writes a message found the
\* outbound queue empty, and leaves in it that message whole, after its
\* length.
C25_Step ==
    \A r \in Roles :
        (hs[r].st = "InProgress" /\ Produced(r, hs[r], hs'[r])) =>
            /\ last'.op = "inject_data"
            /\ hs[r].s.tx_buffer_encrypted = <<>>
            /\ hs'[r].s.tx_buffer_encrypted
                   = BCat(U16BE(BLen(hs'[r].s.inner.h[Len(hs'[r].s.inner.h)])),
                          hs'[r].s.inner.h[Len(hs'[r].s.inner.h)])

\* C25, in every state: the assertion of update_message_write on the queue
\* has not failed.
C25_NoAbort == \A r \in Roles : hs[r] # Panicked("tx_buffer_not_empty")

\* C25: whenever a session writes a message its queue is empty, in any
\* interleaving of the calls of the two sides with any buffer sizes.
C25_QueueEmptyWhenWriting == []C25_NoAbort /\ [][C25_Step]_vars

\* The initiator has written its second message, after its first left the
\* queue in several calls of write_out.
C25_Witness ==
    /\ hs["I"].st = "InProgress"
    /\ Len(hs["I"].s.inner.h) = 3
    /\ last.op = "inject_data"
    /\ last.r = "I"
    /\ hs["I"].s.tx_buffer_encrypted # <<>>
    /\ hist.short >= 2

-----------------------------------------------------------------------------
(* The decoded data after a CipherError *)

\* The bytes of bs that no read_message wrote: what resize left.
RECURSIVE FillerIn(_)
FillerIn(bs) ==
    IF bs = <<>> THEN 0
    ELSE (IF Head(bs).src.k = "filler" THEN Head(bs).n ELSE 0) + FillerIn(Tail(bs))

\* C26, for one call: after a call of inject_inbound_data that returns
\* CipherError the decoded data is what it was before the call followed by
\* the plaintext of the frames of the input that came before the one that
\* failed: it is data the peer sent, with no byte for the frame that failed.
C26_Step ==
    \A r \in Roles :
        (last'.op = "inject_inbound_data" /\ last'.r = r /\ last'.st = "Err") =>
            LET before == decoded_inbound_data(hs[r].cipher)
                after  == decoded_inbound_data(hs'[r].cipher)
            IN  /\ BTake(after, BLen(before)) = before
                /\ FillerIn(after) = FillerIn(before)
                /\ BCat(app[r].got, after)
                       = BTake(app[Peer(r)].data, BLen(app[r].got) + BLen(after))

C26_NothingOfFailedFrame == [][C26_Step]_vars

\* The same without the frame that failed: after CipherError the decoded
\* data is what the claim says followed by as many filler bytes as the
\* frame that failed declared, less 16.
C26_StepFiller ==
    \A r \in Roles :
        (last'.op = "inject_inbound_data" /\ last'.r = r /\ last'.st = "Err") =>
            LET before == decoded_inbound_data(hs[r].cipher)
                after  == decoded_inbound_data(hs'[r].cipher)
                failed == ExpectedLen(hs'[r].cipher.rx_buffer_encrypted)
                good   == BTake(after, BLen(after) - (failed - TAGLEN))
            IN  /\ after = BCat(good, Filler(failed - TAGLEN))
                /\ BTake(good, BLen(before)) = before
                /\ FillerIn(good) = 0
                /\ BCat(app[r].got, good)
                       = BTake(app[Peer(r)].data, BLen(app[r].got) + BLen(good))

C26_FillerOfFailedFrame == [][C26_StepFiller]_vars

\* A call has returned CipherError and the decoded data holds filler bytes
\* for the frame that failed.
C26_FillerLeft ==
    \E r \in Roles :
        /\ hs[r].st = "CipherError"
        /\ last.op = "inject_inbound_data"
        /\ last.r = r
        /\ last.st = "Err"
        /\ FillerIn(decoded_inbound_data(hs[r].cipher)) >= 1
        /\ BLen(decoded_inbound_data(hs[r].cipher)) = last.before + 22

-----------------------------------------------------------------------------
(* The bytes inject_inbound_data leaves to the caller *)

\* C27, for one call: a call of inject_inbound_data that returns Ok has read
\* all its input, unless the decoded data holds 262144 bytes or more when it
\* returns; the bytes it read and did not decrypt, those of a frame whose
\* end has not come, are in rx_buffer_encrypted.
C27_Step ==
    \A r \in Roles :
        (last'.op = "inject_inbound_data" /\ last'.r = r /\ last'.st = "Ok") =>
            LET before == BCat(hs[r].cipher.rx_buffer_encrypted, wire[r])
                after  == BCat(hs'[r].cipher.rx_buffer_encrypted, wire'[r])
                gone   == BTake(before, BLen(before) - BLen(after))
            IN  /\ last'.n <= last'.len
                /\ last'.n < last'.len =>
                       BLen(decoded_inbound_data(hs'[r].cipher)) >= 262144
                /\ BLen(decoded_inbound_data(hs'[r].cipher)) < 262144 =>
                       last'.n = last'.len
                /\ wire'[r] = BDrop(wire[r], last'.n)
                /\ hs'[r].cipher.rx_buffer_encrypted
                       = BDrop(BCat(hs[r].cipher.rx_buffer_encrypted,
                                    BTake(wire[r], last'.n)), BLen(gone))

C27_ShortOnlyWhenFull == [][C27_Step]_vars

\* A call has read some of its input and stopped with 262144 bytes or more
\* decoded.
C27_Witness ==
    \E r \in Roles :
        /\ hs[r].st = "Success"
        /\ last.op = "inject_inbound_data"
        /\ last.r = r
        /\ last.st = "Ok"
        /\ last.n >= 1
        /\ last.n < last.len
        /\ BLen(decoded_inbound_data(hs[r].cipher)) >= 262144

\* A call has read all its input and kept the beginning of a frame.
C27_TrailingFrame ==
    \E r \in Roles :
        /\ hs[r].st = "Success"
        /\ last.op = "inject_inbound_data"
        /\ last.r = r
        /\ last.n = last.len
        /\ hs[r].cipher.rx_buffer_encrypted # <<>>
        /\ BLen(decoded_inbound_data(hs[r].cipher)) > last.before

====
